---------------------------- MODULE Spec2Model ----------------------------
(***************************************************************************)
(* Model of the thematic map of the Oribasius catalogue (src/app.py,       *)
(* get_thematic_map): leaf resolution of entries onto thematic divisions   *)
(* and the recursive roll-up of word counts, entry counts and group        *)
(* counts over the division tree.                                          *)
(*                                                                         *)
(* The division store and the entry store are inputs of the request: Init  *)
(* draws them from bounded sets, the request is then handled in two        *)
(* phases, the entry loop (ResolveEntries) and the tree build with the     *)
(* response (BuildStructure).                                              *)
(***************************************************************************)
EXTENDS Integers, Sequences, FiniteSets, TLC

VARIABLES divisions, entries, mode, pc, division_entries, response,
          fn, arg, ret, catalogue, hash_seed,
          database, session, DEMO_MODE

\* the state of a thematic-map request
map_vars == <<divisions, entries, mode, pc, division_entries, response>>

\* the last utility call (its name, argument and return value), the lemma
\* indexes stored with the entries, and the string hash seed of the process
text_vars == <<fn, arg, ret, catalogue, hash_seed>>

\* the committed tables of the database, the tables as the transaction of the
\* request in progress sees them, and the DEMO_MODE setting of the process
db_vars == <<database, session, DEMO_MODE>>

vars == <<divisions, entries, mode, pc, division_entries, response,
          fn, arg, ret, catalogue, hash_seed,
          database, session, DEMO_MODE>>

\* no database in the state: the requests of the specification read their input
\* from the other variables
NoDatabase == database = <<>> /\ session = <<>> /\ DEMO_MODE = FALSE

--------------------------------------------------------------------------
(* Python values *)

\* None, the value of a NULL column (every modelled column is a nullable Integer)
None == -1

\* float('inf'), above every finite key component
Inf == 1000000

\* truth value of an Integer-or-None in a Python condition: None and 0 are falsy
IsTruthy(x) == x # None /\ x # 0

\* x or 0
OrZero(x) == IF IsTruthy(x) THEN x ELSE 0

\* a < b for two key tuples of the same length (Python tuple comparison)
RECURSIVE TupleLess(_, _)
TupleLess(a, b) ==
    IF Len(a) = 0 \/ Len(b) = 0 THEN Len(a) < Len(b)
    ELSE IF Head(a) # Head(b) THEN Head(a) < Head(b)
    ELSE TupleLess(Tail(a), Tail(b))

\* list.sort(key=...): stable, ascending; keys[i] is the key of seq[i]
SortedBy(seq, keys) ==
    LET n == Len(seq)
        pos == [i \in 1..n |->
                   Cardinality({j \in 1..n : TupleLess(keys[j], keys[i])})
                   + Cardinality({j \in 1..(i-1) : keys[j] = keys[i]}) + 1]
    IN  [p \in 1..n |-> seq[CHOOSE i \in 1..n : pos[i] = p]]

RECURSIVE SumSeq(_)
SumSeq(s) == IF Len(s) = 0 THEN 0 ELSE Head(s) + SumSeq(Tail(s))

--------------------------------------------------------------------------
(* Leaf resolution: the entry loop of get_thematic_map *)

\* division_children[div_id]: the ids of the divisions whose parent_id is div_id,
\* in the order of the division collection
division_children(div_id) ==
    LET kids == SelectSeq(divisions,
                          LAMBDA d : IsTruthy(d.parent_id) /\ d.parent_id = div_id)
    IN  [i \in 1..Len(kids) |-> kids[i].id]

\* the book range alone, the chapter range left out
is_candidate_books_only(div, entry) ==
    /\ IsTruthy(div.books_start) /\ IsTruthy(div.books_end)
    /\ div.books_start <= entry.book /\ entry.book <= div.books_end

\* the test that puts div into matching_divs for an entry with a book
is_candidate(div, entry) ==
    /\ IsTruthy(div.books_start) /\ IsTruthy(div.books_end)
    /\ div.books_start <= entry.book /\ entry.book <= div.books_end
    /\ IF div.chapter_start # None /\ div.chapter_end # None
       THEN /\ entry.chapter # None
            /\ div.chapter_start <= entry.chapter
            /\ entry.chapter <= div.chapter_end
       ELSE TRUE

matching_divs(entry) == SelectSeq(divisions, LAMBDA d : is_candidate(d, entry))

specificity_key(d) ==
    LET has_chapter == IF d.chapter_start # None THEN 0 ELSE 1
        book_range == IF d.books_start # None /\ d.books_end # None
                      THEN d.books_end - d.books_start ELSE Inf
        chapter_range == IF d.chapter_start # None /\ d.chapter_end # None
                         THEN d.chapter_end - d.chapter_start ELSE Inf
        order == IF d.sort_order # None THEN d.sort_order ELSE Inf
    IN  <<has_chapter, book_range, chapter_range, order, OrZero(d.id)>>

\* next((d for d in divisions if d.id == child_id), None); ids are unique
division_by_id(child_id) ==
    LET found == SelectSeq(divisions, LAMBDA d : d.id = child_id)
    IN  found[1]

\* the re-test of one child against the entry: "yes", "no", or "TypeError" when
\* the chained comparison reaches entry.chapter <= None
child_matches(child, entry) ==
    IF IsTruthy(child.books_start) /\ IsTruthy(child.books_end)
    THEN IF child.books_start <= entry.book /\ entry.book <= child.books_end
         THEN IF child.chapter_start # None /\ entry.chapter # None
              THEN IF child.chapter_start <= entry.chapter
                   THEN IF child.chapter_end = None THEN "TypeError"
                        ELSE IF entry.chapter <= child.chapter_end THEN "yes"
                        ELSE "no"
                   ELSE "no"
              ELSE IF child.chapter_start = None THEN "yes" ELSE "no"
         ELSE "no"
    ELSE "no"

\* the loop over division_children[div.id], left to right, stopping at the first
\* match or at the exception
RECURSIVE scan_children(_, _)
scan_children(child_ids, entry) ==
    IF Len(child_ids) = 0 THEN "no"
    ELSE LET r == child_matches(division_by_id(Head(child_ids)), entry)
         IN  IF r = "no" THEN scan_children(Tail(child_ids), entry) ELSE r

\* the first child alone re-tested
has_matching_first_child(div, entry) ==
    LET kids == division_children(div.id)
    IN  IF Len(kids) = 0 THEN "no"
        ELSE child_matches(division_by_id(kids[1]), entry)

has_matching_children(div, entry) == scan_children(division_children(div.id), entry)

\* the first candidate alone examined: rejected, the entry stays unassigned
walk_first_only(sorted_divs, entry) ==
    IF Len(sorted_divs) = 0 THEN [status |-> "ok", id |-> None]
    ELSE LET h == has_matching_children(Head(sorted_divs), entry)
         IN  IF h = "TypeError" THEN [status |-> "TypeError", id |-> None]
             ELSE IF h = "no" THEN [status |-> "ok", id |-> Head(sorted_divs).id]
             ELSE [status |-> "ok", id |-> None]

\* the walk over the sorted candidates: the first one without a matching child
RECURSIVE walk(_, _)
walk(sorted_divs, entry) ==
    IF Len(sorted_divs) = 0 THEN [status |-> "ok", id |-> None]
    ELSE LET h == has_matching_children(Head(sorted_divs), entry)
         IN  IF h = "TypeError" THEN [status |-> "TypeError", id |-> None]
             ELSE IF h = "no" THEN [status |-> "ok", id |-> Head(sorted_divs).id]
             ELSE walk(Tail(sorted_divs), entry)

best_div(entry) ==
    LET found == matching_divs(entry)
        keys == [i \in 1..Len(found) |-> specificity_key(found[i])]
    IN  walk(SortedBy(found, keys), entry)

\* the entry appended to the division's list and to its parent's: counted twice
append_entry_and_parent(acc, div_id, entry) ==
    [d \in DOMAIN acc |->
        IF d = div_id \/ d = division_by_id(div_id).parent_id
        THEN Append(acc[d], entry.id) ELSE acc[d]]

\* division_entries[best_div.id].append(entry)
append_entry(acc, div_id, entry) ==
    [d \in DOMAIN acc |-> IF d = div_id THEN Append(acc[d], entry.id) ELSE acc[d]]

\* the entry loop, left to right; an exception ends the request
RECURSIVE resolve_loop(_, _)
resolve_loop(todo, acc) ==
    IF Len(todo) = 0 THEN [status |-> "ok", division_entries |-> acc]
    ELSE LET entry == Head(todo)
         IN  IF entry.book = None THEN resolve_loop(Tail(todo), acc)
             ELSE LET b == best_div(entry)
                  IN  IF b.status # "ok"
                      THEN [status |-> b.status, division_entries |-> acc]
                      ELSE IF b.id = None THEN resolve_loop(Tail(todo), acc)
                      ELSE resolve_loop(Tail(todo), append_entry(acc, b.id, entry))

--------------------------------------------------------------------------
(* Aggregation: get_group, calc_stats, build_tree *)

SchoolSects == {"Pneumatist", "Methodist", "Empiricist", "Dogmatist"}

\* 'Galen' in name, over the author names of the model
ContainsGalen(name) == name \in {"Galen", "Pseudo-Galen"}

\* a missing source_author_rel
NoAuthor == [present |-> FALSE, name |-> "", sect |-> ""]

\* the sect looked at before the name
get_group_sect_first(entry, m) ==
    IF m = "school"
    THEN IF entry.source_author_rel.present
         THEN IF entry.source_author_rel.sect \in SchoolSects
              THEN entry.source_author_rel.sect
              ELSE IF entry.source_author_rel.name # ""
                      /\ ContainsGalen(entry.source_author_rel.name)
                   THEN "Galen"
                   ELSE "Other"
         ELSE "Other"
    ELSE IF entry.source_author_rel.present THEN entry.source_author_rel.name
         ELSE IF entry.author # "" THEN entry.author ELSE "Unknown"

get_group(entry, m) ==
    IF m = "school"
    THEN IF entry.source_author_rel.present
         THEN IF entry.source_author_rel.name # ""
                 /\ ContainsGalen(entry.source_author_rel.name)
              THEN "Galen"
              ELSE IF entry.source_author_rel.sect \in SchoolSects
                   THEN entry.source_author_rel.sect
                   ELSE "Other"
         ELSE "Other"
    ELSE IF entry.source_author_rel.present THEN entry.source_author_rel.name
         ELSE IF entry.author # "" THEN entry.author ELSE "Unknown"

entry_by_id(entry_id) == entries[entry_id]

\* the entries without a word count left out of entry_count
calc_stats_counting_words_only(div_id, de, m) ==
    LET own == [i \in 1..Len(de[div_id]) |-> entry_by_id(de[div_id][i])]
        words == [i \in 1..Len(own) |-> OrZero(own[i].word_count)]
        labels == {get_group(own[i], m) : i \in 1..Len(own)}
    IN  [word_count |-> SumSeq(words),
         entry_count |-> Cardinality({i \in 1..Len(own) : words[i] # 0}),
         group_counts |->
             [g \in labels |->
                 SumSeq([i \in 1..Len(own) |->
                            IF get_group(own[i], m) = g THEN words[i] ELSE 0])]]

\* stats of the entries assigned to div_id itself
calc_stats(div_id, de, m) ==
    LET own == [i \in 1..Len(de[div_id]) |-> entry_by_id(de[div_id][i])]
        words == [i \in 1..Len(own) |-> OrZero(own[i].word_count)]
        labels == {get_group(own[i], m) : i \in 1..Len(own)}
    IN  [word_count |-> SumSeq(words),
         entry_count |-> Len(own),
         group_counts |->
             [g \in labels |->
                 SumSeq([i \in 1..Len(own) |->
                            IF get_group(own[i], m) = g THEN words[i] ELSE 0])]]

\* stats['group_counts'][g] += c over the items of a child's group_counts
merge_counts(a, b) ==
    [g \in DOMAIN a \cup DOMAIN b |->
        (IF g \in DOMAIN a THEN a[g] ELSE 0) + (IF g \in DOMAIN b THEN b[g] ELSE 0)]

RECURSIVE merge_all(_, _)
merge_all(acc, child_data) ==
    IF Len(child_data) = 0 THEN acc
    ELSE merge_all(merge_counts(acc, Head(child_data).group_counts), Tail(child_data))

sort_order_key(d) == <<OrZero(d.sort_order)>>

\* children = [d for d in divisions if d.parent_id == division.id], sorted
tree_children(division) ==
    LET found == SelectSeq(divisions, LAMBDA d : d.parent_id = division.id)
    IN  SortedBy(found, [i \in 1..Len(found) |-> sort_order_key(found[i])])

\* build_tree(division); path holds the ids of the calls in progress: a call for an
\* id already on it would recurse without end, which Python ends with a
\* RecursionError
RECURSIVE build_tree(_, _, _, _)
build_tree(division, de, m, path) ==
    IF division.id \in path
    THEN [id |-> division.id, word_count |-> 0, entry_count |-> 0,
          group_counts |-> <<>>, children |-> <<>>, recursion_error |-> TRUE]
    ELSE LET children == tree_children(division)
             stats == calc_stats(division.id, de, m)
             child_data == [i \in 1..Len(children) |->
                               build_tree(children[i], de, m, path \cup {division.id})]
         IN  [id |-> division.id,
              word_count |-> stats.word_count
                   + SumSeq([i \in 1..Len(child_data) |-> child_data[i].word_count]),
              entry_count |-> stats.entry_count
                   + SumSeq([i \in 1..Len(child_data) |-> child_data[i].entry_count]),
              group_counts |-> merge_all(stats.group_counts, child_data),
              children |-> child_data,
              recursion_error |->
                   \E i \in 1..Len(child_data) : child_data[i].recursion_error]

\* the first division taken as the root when no division is without a parent
roots_or_first ==
    LET found == SelectSeq(divisions, LAMBDA d : d.parent_id = None)
    IN  IF Len(found) = 0 THEN SubSeq(divisions, 1, 1)
        ELSE SortedBy(found, [i \in 1..Len(found) |-> sort_order_key(found[i])])

roots ==
    LET found == SelectSeq(divisions, LAMBDA d : d.parent_id = None)
    IN  SortedBy(found, [i \in 1..Len(found) |-> sort_order_key(found[i])])

--------------------------------------------------------------------------
(* Colours of the thematic map *)

\* the elements of a list
Elements(list) == {list[i] : i \in 1..Len(list)}

\* the texts of a set in ascending order
RECURSIVE AscendingList(_)
AscendingList(S) ==
    IF S = {} THEN <<>>
    ELSE LET m == CHOOSE x \in S : \A y \in S \ {x} : TupleLess(x, y)
         IN  <<m>> \o AscendingList(S \ {m})

AUTHOR_PALETTE ==
    << "#e41a1c", "#377eb8", "#4daf4a", "#984ea3", "#ff7f00",
       "#ffff33", "#a65628", "#f781bf", "#999999", "#66c2a5",
       "#fc8d62", "#8da0cb", "#e78ac3", "#a6d854", "#ffd92f",
       "#e5c494", "#b3b3b3", "#8dd3c7", "#bebada", "#fb8072",
       "#80b1d3", "#fdb462", "#b3de69", "#fccde5", "#d9d9d9" >>

\* the colours given in the order the labels were collected, without the sort
build_author_colors_unsorted(collected) ==
    [name \in Elements(collected) |->
        LET first == CHOOSE i \in 1..Len(collected) :
                         collected[i] = name /\ \A j \in 1..(i - 1) : collected[j] # name
        IN  AUTHOR_PALETTE[((first - 1) % Len(AUTHOR_PALETTE)) + 1]]

\* author_colors; collected lists the labels of authors_set in the order they
\* were put into the set, idx is the index of enumerate, from 0
build_author_colors(collected) ==
    LET names == AscendingList(Elements(collected))
    IN  [name \in Elements(collected) |->
            LET idx == (CHOOSE i \in 1..Len(names) : names[i] = name) - 1
            IN  AUTHOR_PALETTE[(idx % Len(AUTHOR_PALETTE)) + 1]]

SCHOOL_COLORS ==
    [label \in {"Galen", "Pneumatist", "Methodist", "Empiricist", "Dogmatist", "Other"} |->
        CASE label = "Galen" -> "#e41a1c"
          [] label = "Pneumatist" -> "#377eb8"
          [] label = "Methodist" -> "#4daf4a"
          [] label = "Empiricist" -> "#984ea3"
          [] label = "Dogmatist" -> "#ff7f00"
          [] label = "Other" -> "#999999"]

\* the code points of the names of the model, by which Python orders str values
NameText(name) ==
    CASE name = "Galen" -> <<71, 97, 108, 101, 110>>
      [] name = "Pseudo-Galen" -> <<80, 115, 101, 117, 100, 111, 45, 71, 97, 108, 101, 110>>
      [] name = "Rufus" -> <<82, 117, 102, 117, 115>>
      [] name = "Antyllus" -> <<65, 110, 116, 121, 108, 108, 117, 115>>
      [] name = "Anon" -> <<65, 110, 111, 110>>
      [] name = "Old" -> <<79, 108, 100>>
      [] name = "Other" -> <<79, 116, 104, 101, 114>>
      [] name = "Unknown" -> <<85, 110, 107, 110, 111, 119, 110>>

\* dict.setdefault(key, value)
setdefault(d, key, value) ==
    IF key \in DOMAIN d THEN d
    ELSE [k \in DOMAIN d \cup {key} |-> IF k = key THEN value ELSE d[k]]

\* authors_set: the names of the resolved authors of all entries, empty names
\* left out; listed in the order of the entries
authors_set(entry_list) ==
    LET named == SelectSeq(entry_list,
                           LAMBDA e : e.source_author_rel.present
                                      /\ e.source_author_rel.name # "")
    IN  [i \in 1..Len(named) |-> named[i].source_author_rel.name]

\* colors: the school colours, or the author colours with 'Unknown' and 'Other'
\* set when missing
colors(entry_list, m) ==
    IF m = "school" THEN SCHOOL_COLORS
    ELSE LET names == authors_set(entry_list)
             by_text == build_author_colors([i \in 1..Len(names) |-> NameText(names[i])])
             author_colors == [name \in {names[i] : i \in 1..Len(names)} |->
                                  by_text[NameText(name)]]
         IN  setdefault(setdefault(author_colors, "Unknown", "#999999"),
                        "Other", "#999999")

--------------------------------------------------------------------------
(* The stores a request can find *)

\* entries lie in books 1..MaxBook
MaxBook == 2

\* a deep forest holds MaxDivs divisions
MaxDivs == 3

Modes == {"school", "author"}

Division(id, parent_id, books, chapters, sort_order) ==
    [id |-> id, parent_id |-> parent_id,
     books_start |-> books[1], books_end |-> books[2],
     chapter_start |-> chapters[1], chapter_end |-> chapters[2],
     sort_order |-> sort_order]

Entry(id, book, chapter, word_count, rel, author) ==
    [id |-> id, book |-> book, chapter |-> chapter, word_count |-> word_count,
     source_author_rel |-> rel, author |-> author]

Author(name, sect) == [present |-> TRUE, name |-> name, sect |-> sect]

ProperBookRanges == {<<s, e>> : s \in 1..MaxBook, e \in 1..MaxBook} \ 
                    {<<s, e>> \in (1..MaxBook) \X (1..MaxBook) : s > e}

BookRanges == ProperBookRanges \cup {<<None, None>>, <<0, MaxBook>>, <<1, None>>}

ChapterRanges == {<<None, None>>, <<1, 10>>, <<1, 20>>, <<7, None>>, <<None, 10>>}

SortOrders == {None, 1}

\* two divisions, every combination of their fields, each a root or the other's child
PairDivisions ==
    {<<Division(1, p1, b1, c1, s1), Division(2, p2, b2, c2, s2)>> :
        p1 \in {None, 2}, p2 \in {None, 1},
        b1 \in BookRanges, b2 \in BookRanges,
        c1 \in ChapterRanges, c2 \in ChapterRanges,
        s1 \in SortOrders, s2 \in SortOrders}

DeepBookRanges == {<<1, 1>>, <<1, 2>>}

\* MaxDivs divisions with book ranges only and any parent link: a root, another
\* division, itself, or an id that no division has
DeepDivisions ==
    LET ids == 1..MaxDivs
        shapes == [ids -> ((ids \cup {None, MaxDivs + 1}) \X DeepBookRanges)]
    IN  {[i \in ids |-> Division(i, f[i][1], f[i][2], <<None, None>>, None)] :
            f \in shapes}

ChapterChoices == <<None, 5, 20>>

AuthorChoices ==
    << <<NoAuthor, "Anon">>, <<Author("Galen", "Dogmatist"), "">>,
       <<Author("Rufus", "Pneumatist"), "">>, <<NoAuthor, "">>,
       <<Author("Antyllus", ""), "Old">> >>

\* one entry without a book, then one per book and chapter choice; the word counts
\* are distinct powers of two, with one NULL
EntryPool ==
    [i \in 1..(1 + 3 * MaxBook) |->
        LET a == AuthorChoices[(i % 5) + 1]
            wc == IF i % 5 = 0 THEN None ELSE 2 ^ (i - 1)
        IN  IF i = 1 THEN Entry(1, None, 5, wc, a[1], a[2])
            ELSE Entry(i, ((i - 2) \div 3) + 1, ChapterChoices[((i - 2) % 3) + 1],
                       wc, a[1], a[2])]

ExampleEntries ==
    << Entry(1, 1, 5, 100, NoAuthor, ""), Entry(2, 1, 20, 50, NoAuthor, "") >>

DivIds == {divisions[i].id : i \in 1..Len(divisions)}

NoResponse == [status |-> "none", mode |-> "", structure |-> <<>>, colors |-> <<>>]

--------------------------------------------------------------------------
(* The request GET /api/thematic-map *)

Init ==
    /\ \/ divisions \in PairDivisions /\ entries \in {EntryPool, ExampleEntries}
       \/ divisions \in DeepDivisions /\ entries = EntryPool
    /\ mode = ""
    /\ pc = "start"
    /\ division_entries = [d \in DivIds |-> <<>>]
    /\ response = NoResponse
    /\ fn = "" /\ arg = None /\ ret = None /\ catalogue = <<>> /\ hash_seed = 0
    /\ NoDatabase

\* the entry loop; a TypeError leaves the handler and is the response
ResolveEntries ==
    /\ pc = "start"
    /\ \E r \in {resolve_loop(entries, division_entries)} :
           IF r.status = "ok"
           THEN /\ division_entries' = r.division_entries
                /\ pc' = "resolved"
                /\ UNCHANGED response
           ELSE /\ response' = [status |-> r.status, mode |-> mode, structure |-> <<>>,
                                 colors |-> <<>>]
                /\ pc' = "done"
                /\ UNCHANGED division_entries
    /\ UNCHANGED <<divisions, entries, mode>>
    /\ UNCHANGED text_vars
    /\ UNCHANGED db_vars

\* the tree build over the roots and the response, in the mode of the request
BuildStructure ==
    /\ pc = "resolved"
    /\ \E m \in Modes :
           /\ mode' = m
           /\ \E structure \in {[i \in 1..Len(roots) |->
                                   build_tree(roots[i], division_entries, m, {})]} :
                  response' = IF \E i \in 1..Len(structure) : structure[i].recursion_error
                              THEN [status |-> "RecursionError", mode |-> m,
                                    structure |-> <<>>, colors |-> <<>>]
                              ELSE [status |-> "ok", mode |-> m, structure |-> structure,
                                    colors |-> colors(entries, m)]
    /\ pc' = "done"
    /\ UNCHANGED <<divisions, entries, division_entries>>
    /\ UNCHANGED text_vars
    /\ UNCHANGED db_vars

Next == ResolveEntries \/ BuildStructure

Spec == Init /\ [][Next]_vars

--------------------------------------------------------------------------
(* Vocabulary of the properties *)

EntryIds == 1..Len(entries)

WithBook == {e \in EntryIds : entries[e].book # None}

DivisionSet == {divisions[i] : i \in 1..Len(divisions)}

\* the places <<division id, index>> at which entry e stands in division_entries
Places(e) ==
    UNION {{<<d, i>> : i \in {j \in 1..Len(division_entries[d]) :
                                   division_entries[d][j] = e}} : d \in DivIds}

AssignedTo(e) == {pl[1] : pl \in Places(e)}

Candidates(e) == {d \in DivisionSet : is_candidate(d, entries[e])}

DirectChildren(p) == {c \in DivisionSet : c.parent_id = p.id}

\* the entry loop has run to its end
LoopDone == pc = "resolved" \/ (pc = "done" /\ response.status # "TypeError")

--------------------------------------------------------------------------
(* C1 *)

\* C1: leaf resolution assigns every entry with a book to at most one division:
\* no entry stands in the directly-assigned list of two divisions, nor twice in one.
C1_LeafResolutionUnique ==
    \A e \in WithBook : Cardinality(Places(e)) <= 1

\* an entry with two candidates, parent and child, has been assigned
C1_Witness ==
    /\ LoopDone
    /\ \E e \in WithBook :
          /\ Cardinality(Places(e)) = 1
          /\ \E p \in Candidates(e) : DirectChildren(p) \cap Candidates(e) # {}

--------------------------------------------------------------------------
(* C2 *)

\* C2: when an entry is a candidate of both a division P and a direct child C of P,
\* the entry is never assigned to P, and never to more than one division.
C2_ChildNeverParent ==
    \A e \in WithBook : \A p \in Candidates(e) :
        DirectChildren(p) \cap Candidates(e) # {}
            => p.id \notin AssignedTo(e) /\ Cardinality(Places(e)) <= 1

--------------------------------------------------------------------------
(* C3 *)

\* every division below one of S, at any depth
RECURSIVE Below(_)
Below(S) ==
    LET more == S \cup UNION {DirectChildren(d) : d \in S}
    IN  IF more = S THEN S ELSE Below(more)

ProperDescendants(d) == Below(DirectChildren(d)) \ {d}

\* the child's book range is present and holds the entry's book, and the child has
\* no chapter_start or its chapter range holds the entry's chapter
ChildCovers(c, entry) ==
    /\ c.books_start \notin {None, 0} /\ c.books_end \notin {None, 0}
    /\ c.books_start <= entry.book /\ entry.book <= c.books_end
    /\ \/ c.chapter_start = None
       \/ /\ entry.chapter # None /\ c.chapter_end # None
          /\ c.chapter_start <= entry.chapter /\ entry.chapter <= c.chapter_end

--------------------------------------------------------------------------
(* C4 *)

HasChapterRange(d) == d.chapter_start # None /\ d.chapter_end # None

\* the candidates as the specification defines them
Covers(d, entry) ==
    /\ entry.book # None
    /\ d.books_start # None /\ d.books_end # None
    /\ d.books_start <= entry.book /\ entry.book <= d.books_end
    /\ HasChapterRange(d) =>
          /\ entry.chapter # None
          /\ d.chapter_start <= entry.chapter /\ entry.chapter <= d.chapter_end

\* the candidates the entry loop computes for an entry: none without a book
LoopCandidates(e) ==
    IF entries[e].book = None THEN {}
    ELSE {matching_divs(entries[e])[i] : i \in 1..Len(matching_divs(entries[e]))}

\* C4: the candidate set of an entry is exactly the set of divisions whose book
\* range contains the entry's book and whose chapter range, when they have one,
\* contains the entry's chapter; an entry without a book has no candidate and is
\* unassigned.
C4_CandidateSetExact ==
    \A e \in EntryIds :
        /\ LoopCandidates(e) = {d \in DivisionSet : Covers(d, entries[e])}
        /\ entries[e].book = None => AssignedTo(e) = {}

--------------------------------------------------------------------------
(* C5 *)

\* the specificity order of the specification: chapter range present before absent, then
\* narrower book span, narrower chapter span, lower sort order, lower id
RankKey(d) ==
    << IF HasChapterRange(d) THEN 0 ELSE 1,
       d.books_end - d.books_start,
       IF HasChapterRange(d) THEN d.chapter_end - d.chapter_start ELSE Inf,
       IF d.sort_order # None THEN d.sort_order ELSE Inf,
       d.id >>

\* the candidates that have no direct child among the candidates
Passing(e) == {d \in Candidates(e) : DirectChildren(d) \cap Candidates(e) = {}}

FirstPassing(e) ==
    {d \in Passing(e) : \A o \in Passing(e) \ {d} : TupleLess(RankKey(d), RankKey(o))}

\* C5: the division assigned to an entry is the first, in the specificity order, of
\* the candidates that have no direct child matching the entry; without such a
\* candidate the entry is unassigned.
C5_FirstPassingCandidate ==
    pc = "resolved" =>
        \A e \in WithBook : AssignedTo(e) = {d.id : d \in FirstPassing(e)}

--------------------------------------------------------------------------
(* Vocabulary of the returned structure *)

\* the nodes of a returned tree, the tree's root first, each as often as it occurs
RECURSIVE NodeSeq(_)
RECURSIVE NodeSeqAll(_)
NodeSeq(tree) == <<tree>> \o NodeSeqAll(tree.children)
NodeSeqAll(trees) ==
    IF Len(trees) = 0 THEN <<>> ELSE NodeSeq(Head(trees)) \o NodeSeqAll(Tail(trees))

ReturnedNodes == NodeSeqAll(response.structure)

NodeSet == {ReturnedNodes[i] : i \in 1..Len(ReturnedNodes)}

\* an entry's word count, a NULL counting as none
WordsOf(e) == IF entries[e].word_count = None THEN 0 ELSE entries[e].word_count

OwnEntries(div_id) == division_entries[div_id]

OwnWords(div_id) ==
    SumSeq([i \in 1..Len(OwnEntries(div_id)) |-> WordsOf(OwnEntries(div_id)[i])])

\* some division is reached from itself along parent links
HasCycle == \E d \in DivisionSet : d \in Below(DirectChildren(d))

\* some division's parent_id is the id of no division
HasMissingParent == \E d \in DivisionSet : d.parent_id # None /\ d.parent_id \notin DivIds

--------------------------------------------------------------------------
(* C6 *)

\* C6: in the returned tree every node's entry_count is the number of its own
\* entries plus its children's entry_count, its word_count the words of its own
\* entries plus its children's word_count; a node without children and without
\* entries reports zero for both and an empty group_counts.
C6_AggregationConsistent ==
    response.status = "ok" =>
        \A n \in NodeSet :
            /\ n.entry_count = Len(OwnEntries(n.id))
                  + SumSeq([i \in 1..Len(n.children) |-> n.children[i].entry_count])
            /\ n.word_count = OwnWords(n.id)
                  + SumSeq([i \in 1..Len(n.children) |-> n.children[i].word_count])
            /\ (Len(n.children) = 0 /\ Len(OwnEntries(n.id)) = 0) =>
                  /\ n.entry_count = 0 /\ n.word_count = 0
                  /\ DOMAIN n.group_counts = {}

\* a returned node with entries of its own, one of them without a word count, and
\* a child that has entries too; and a childless node without entries
C6_Witness ==
    /\ response.status = "ok"
    /\ \E n \in NodeSet :
          /\ \E i \in 1..Len(OwnEntries(n.id)) :
                entries[OwnEntries(n.id)[i]].word_count = None
          /\ \E i \in 1..Len(n.children) : n.children[i].entry_count > 0
    /\ \E n \in NodeSet : Len(n.children) = 0 /\ Len(OwnEntries(n.id)) = 0

--------------------------------------------------------------------------
(* C7 *)

AssignedWords ==
    SumSeq([e \in 1..Len(entries) |->
               IF e \in WithBook /\ AssignedTo(e) # {} THEN WordsOf(e) ELSE 0])

\* C7: the word_count of the returned roots adds up to the words of the entries
\* with a book that leaf resolution assigned to some division.
C7_RootsHoldAllWords ==
    response.status = "ok" =>
        SumSeq([i \in 1..Len(response.structure) |-> response.structure[i].word_count])
            = AssignedWords

--------------------------------------------------------------------------
(* C8 *)

\* division A (books 1-2, no chapter range) and its child B (book 1, chapters 1-10)
IsExampleStore ==
    /\ entries = ExampleEntries
    /\ Len(divisions) = 2
    /\ divisions[1].parent_id = None
    /\ <<divisions[1].books_start, divisions[1].books_end>> = <<1, 2>>
    /\ <<divisions[1].chapter_start, divisions[1].chapter_end>> = <<None, None>>
    /\ divisions[2].parent_id = 1
    /\ <<divisions[2].books_start, divisions[2].books_end>> = <<1, 1>>
    /\ <<divisions[2].chapter_start, divisions[2].chapter_end>> = <<1, 10>>

\* C8: with e1 (book 1, chapter 5, 100 words), e2 (book 1, chapter 20, 50 words),
\* A and B as above, e1 is assigned to B and e2 to A, and the returned word_count
\* is 150 at A and 100 at B.
C8_EndToEndExample ==
    (IsExampleStore /\ pc = "done") =>
        /\ response.status = "ok"
        /\ division_entries[2] = <<1>> /\ division_entries[1] = <<2>>
        /\ Len(response.structure) = 1
        /\ response.structure[1].id = 1 /\ response.structure[1].word_count = 150
        /\ Len(response.structure[1].children) = 1
        /\ response.structure[1].children[1].id = 2
        /\ response.structure[1].children[1].word_count = 100

C8_Witness == IsExampleStore /\ pc = "done" /\ response.status = "ok"

--------------------------------------------------------------------------
(* C9 *)

\* C9: a division collection with a cycle of parent links is rejected with an
\* explicit failure; no result is returned for it.
C9_CycleRejected ==
    (pc = "done" /\ HasCycle) => response.status # "ok"

--------------------------------------------------------------------------
(* C10 *)

\* C10: the recursive tree build terminates for every division collection, also
\* with cyclic or dangling parent links: it never calls itself for a division whose
\* call is in progress, and builds no division twice.
C10_TreeBuildTerminates ==
    pc = "done" =>
        /\ response.status # "RecursionError"
        /\ \A i, j \in 1..Len(ReturnedNodes) :
              ReturnedNodes[i].id = ReturnedNodes[j].id => i = j

\* a response for a collection with a cycle and with a dangling parent link
C10_Witness ==
    /\ pc = "done" /\ response.status = "ok"
    /\ HasCycle /\ HasMissingParent

--------------------------------------------------------------------------
(* Unicode: a text is a sequence of code points *)

\* a text argument that is None
NoText == <<None>>

\* `not text`
IsEmptyText(text) == text = NoText \/ text = <<>>

\* canonical decomposition: omicron with tonos, omega with ypogegrammeni and the
\* Greek question mark decompose, every other code point of the model does not
Decomposition(c) ==
    CASE c = 972 -> <<959, 769>>
      [] c = 8179 -> <<969, 837>>
      [] c = 894 -> <<59>>
      [] OTHER -> <<c>>

\* canonical combining class: the acute accent and the ypogegrammeni are marks
CombiningClass(c) ==
    CASE c = 769 -> 230
      [] c = 837 -> 240
      [] OTHER -> 0

\* unicodedata.category(c) == 'Mn'
IsMn(c) == c \in {769, 837}

RECURSIVE Decompose(_)
Decompose(text) ==
    IF text = <<>> THEN <<>>
    ELSE Decomposition(Head(text)) \o Decompose(Tail(text))

\* canonical ordering: marks that follow one another are put in the order of
\* their combining classes
RECURSIVE CanonicalOrder(_)
CanonicalOrder(s) ==
    LET bad == {i \in 1..(Len(s) - 1) :
                   /\ CombiningClass(s[i + 1]) > 0
                   /\ CombiningClass(s[i]) > CombiningClass(s[i + 1])}
    IN  IF bad = {} THEN s
        ELSE LET i == CHOOSE k \in bad : \A j \in bad : k <= j
             IN  CanonicalOrder([s EXCEPT ![i] = s[i + 1], ![i + 1] = s[i]])

\* unicodedata.normalize('NFD', text)
NFD(text) == CanonicalOrder(Decompose(text))

\* the primary composite of a starter and a mark, None when there is none
Composite(a, b) ==
    CASE a = 959 /\ b = 769 -> 972
      [] a = 969 /\ b = 837 -> 8179
      [] OTHER -> None

\* canonical composition: a code point is combined with the last starter when
\* the pair has a composite and no mark of an equal or higher class stands between
RECURSIVE Compose(_, _, _, _)
Compose(out, starter, last_class, rest) ==
    IF rest = <<>> THEN out
    ELSE LET ch == Head(rest)
             cls == CombiningClass(ch)
             comp == IF starter = 0 THEN None ELSE Composite(out[starter], ch)
         IN  IF comp # None /\ (last_class < cls \/ last_class = 0)
             THEN Compose([out EXCEPT ![starter] = comp], starter, last_class,
                          Tail(rest))
             ELSE Compose(Append(out, ch),
                          IF cls = 0 THEN Len(out) + 1 ELSE starter,
                          cls, Tail(rest))

\* unicodedata.normalize('NFC', text)
NFC(text) == Compose(<<>>, 0, 0, NFD(text))

\* the letters with a case among the code points of the model
IsCased(c) ==
    c \in {97, 927, 931, 945, 949, 951, 952, 953, 957, 959, 962, 963, 964, 965,
           969, 972, 8179}

\* ignored when the context of a capital sigma is looked at
IsCaseIgnorable(c) == IsMn(c)

\* capital sigma at position i is a final sigma: a cased letter before it, none
\* after it, the case-ignorable code points skipped
FinalSigma(s, i) ==
    LET before == {j \in 1..(i - 1) : ~IsCaseIgnorable(s[j])}
        after == {j \in (i + 1)..Len(s) : ~IsCaseIgnorable(s[j])}
    IN  /\ before # {}
        /\ IsCased(s[CHOOSE j \in before : \A k \in before : k <= j])
        /\ \/ after = {}
           \/ ~IsCased(s[CHOOSE j \in after : \A k \in after : j <= k])

\* str.lower()
ToLower(s) ==
    [i \in 1..Len(s) |->
        IF s[i] = 931 THEN (IF FinalSigma(s, i) THEN 962 ELSE 963)
        ELSE IF s[i] = 927 THEN 959
        ELSE s[i]]

StripMn(s) == SelectSeq(s, LAMBDA c : ~IsMn(c))

--------------------------------------------------------------------------
(* normalize_greek, extract_greek_words, simple_lemmatize *)

\* the marks removed before the text is decomposed: a precomposed letter keeps
\* its accent through the removal and leaves it in the result
normalize_greek_strip_first(text) ==
    IF IsEmptyText(text) THEN <<>>
    ELSE ToLower(NFD(StripMn(text)))

normalize_greek(text) ==
    IF IsEmptyText(text) THEN <<>>
    ELSE ToLower(NFC(StripMn(NFD(text))))

\* the character class [\u0370-\u03FF\u1F00-\u1FFF]
IsGreek(c) == (880 <= c /\ c <= 1023) \/ (7936 <= c /\ c <= 8191)

\* re.findall(pattern, text): the maximal runs of the class, left to right; run is
\* the run being read
RECURSIVE findall_greek(_, _)
findall_greek(text, run) ==
    IF text = <<>> THEN (IF run = <<>> THEN <<>> ELSE <<run>>)
    ELSE IF IsGreek(Head(text)) THEN findall_greek(Tail(text), Append(run, Head(text)))
    ELSE (IF run = <<>> THEN <<>> ELSE <<run>>) \o findall_greek(Tail(text), <<>>)

extract_greek_words(text) ==
    IF IsEmptyText(text) THEN <<>> ELSE findall_greek(text, <<>>)

\* the rules, each a suffix (the pattern without its '$') and a replacement
GREEK_LEMMA_RULES ==
    << <<(<<959, 965>>), <<959, 962>>>>,
       <<(<<951, 962>>), <<951>>>>,
       <<(<<945, 962>>), <<945>>>>,
       <<(<<969, 957>>), <<959, 962>>>>,
       <<(<<949, 953>>), <<949, 953, 957>>>>,
       <<(<<959, 965, 963, 953>>), <<949, 953, 957>>>>,
       <<(<<949, 964, 945, 953>>), <<949, 963, 952, 945, 953>>>>,
       <<(<<959, 957, 964, 945, 953>>), <<949, 963, 952, 945, 953>>>>,
       <<(<<969, 957>>), <<969, 957>>>>,
       <<(<<959, 965, 963, 945>>), <<969, 957>>>>,
       <<(<<959, 957>>), <<969, 957>>>>,
       <<(<<959, 965>>), <<959, 962>>>>,
       <<(<<8179>>), <<959, 962>>>>,
       <<(<<959, 957>>), <<959, 962>>>> >>

EndsWith(s, suffix) ==
    /\ Len(s) >= Len(suffix)
    /\ SubSeq(s, Len(s) - Len(suffix) + 1, Len(s)) = suffix

\* re.search(suffix + '$', s): '$' matches at the end and before a final newline
rule_matches(suffix, s) == EndsWith(s, suffix) \/ EndsWith(s, suffix \o <<10>>)

\* re.sub(suffix + '$', replacement, s)
rule_rewrite(suffix, replacement, s) ==
    IF EndsWith(s, suffix \o <<10>>)
    THEN SubSeq(s, 1, Len(s) - Len(suffix) - 1) \o replacement \o <<10>>
    ELSE SubSeq(s, 1, Len(s) - Len(suffix)) \o replacement

\* the rules stopped at the first one that matches
lemma_set_first_rule_only(word) ==
    LET normalized == normalize_greek(word)
        hits == {r \in 1..Len(GREEK_LEMMA_RULES) :
                    rule_matches(GREEK_LEMMA_RULES[r][1], normalized)}
        first == {r \in hits : \A q \in hits : r <= q}
    IN  {normalized} \cup
        {rule_rewrite(GREEK_LEMMA_RULES[r][1], GREEK_LEMMA_RULES[r][2], normalized) :
            r \in first}

\* the set lemmas at the end of simple_lemmatize
lemma_set(word) ==
    LET normalized == normalize_greek(word)
    IN  {normalized} \cup
        {rule_rewrite(GREEK_LEMMA_RULES[r][1], GREEK_LEMMA_RULES[r][2], normalized) :
            r \in {q \in 1..Len(GREEK_LEMMA_RULES) :
                      rule_matches(GREEK_LEMMA_RULES[q][1], normalized)}}

RECURSIVE Permuted(_, _)
Permuted(list, k) ==
    IF list = <<>> THEN <<>>
    ELSE LET n == Len(list)
             i == (k % n) + 1
         IN  <<list[i]>> \o
             Permuted(SubSeq(list, 1, i - 1) \o SubSeq(list, i + 1, n), k \div n)

\* the iteration order of a set of strings: fixed by the hash seed of the process
\* and by nothing else; seed k gives the k-th arrangement of the set
set_iteration(S, seed) == Permuted(AscendingList(S), seed)

\* list(lemmas)
simple_lemmatize(word, seed) == set_iteration(lemma_set(word), seed)

--------------------------------------------------------------------------
(* build_lemma_index, search_with_lemma *)

\* index[lemma].append(pos) on a defaultdict(list): the dict is the sequence of
\* its items <<lemma, positions>> in insertion order
index_append(index, lemma, pos) ==
    IF \E k \in 1..Len(index) : index[k][1] = lemma
    THEN [k \in 1..Len(index) |->
             IF index[k][1] = lemma THEN <<lemma, Append(index[k][2], pos)>>
             ELSE index[k]]
    ELSE Append(index, <<lemma, <<pos>>>>)

\* the inner loop: for lemma in simple_lemmatize(word)
RECURSIVE index_lemmas(_, _, _)
index_lemmas(index, lemmas, pos) ==
    IF lemmas = <<>> THEN index
    ELSE index_lemmas(index_append(index, Head(lemmas), pos), Tail(lemmas), pos)

\* the outer loop: for pos, word in enumerate(words)
RECURSIVE index_words(_, _, _, _)
index_words(index, words, pos, seed) ==
    IF words = <<>> THEN index
    ELSE index_words(index_lemmas(index, simple_lemmatize(Head(words), seed), pos),
                     Tail(words), pos + 1, seed)

\* a JSON text or a NULL column, by what json.loads makes of it: "NULL" (None),
\* "empty" (''), "invalid" (no JSON), "number", "null", "array" (of strings, in
\* members) and "object" (its members <<key, value>> in the order written)
JsonText(kind, members) == [kind |-> kind, members |-> members]

\* json.dumps(index, ensure_ascii=False): the items in the order of the dict
json_dumps(index) == JsonText("object", index)

\* the positions counted from 1, as enumerate(words, 1) would
build_lemma_index_from_one(text, seed) ==
    json_dumps(index_words(<<>>, extract_greek_words(text), 1, seed))

build_lemma_index(text, seed) ==
    json_dumps(index_words(<<>>, extract_greek_words(text), 0, seed))

\* json.loads(text): the parsed value, or the exception
json_loads(text) ==
    CASE text.kind = "object" ->
            [status |-> "ok", type |-> "dict",
             keys |-> {text.members[k][1] : k \in 1..Len(text.members)}]
      [] text.kind = "array" ->
            [status |-> "ok", type |-> "list",
             keys |-> {text.members[k] : k \in 1..Len(text.members)}]
      [] text.kind = "number" -> [status |-> "ok", type |-> "int", keys |-> {}]
      [] text.kind = "null" -> [status |-> "ok", type |-> "NoneType", keys |-> {}]
      [] OTHER -> [status |-> "JSONDecodeError", type |-> "", keys |-> {}]

\* query_lemmas: the union of the lemmas of the words of the query
query_lemmas(query) ==
    UNION {lemma_set(extract_greek_words(query)[k]) :
              k \in 1..Len(extract_greek_words(query))}

\* one pass of the entry loop: "skip", "match", or "TypeError" when `lemma in
\* index` is asked of a value that is no container
entry_matches(entry, lemmas) ==
    IF entry.lemma_index.kind \in {"NULL", "empty"} THEN "skip"
    ELSE LET index == json_loads(entry.lemma_index)
         IN  IF index.status = "JSONDecodeError" THEN "skip"
             ELSE IF lemmas = {} THEN "skip"
             ELSE IF index.type \in {"int", "NoneType"} THEN "TypeError"
             ELSE IF lemmas \cap index.keys # {} THEN "match"
             ELSE "skip"

\* the entry loop; results holds the positions of the entries appended
RECURSIVE search_loop(_, _, _, _)
search_loop(entry_list, k, lemmas, results) ==
    IF k > Len(entry_list) THEN [status |-> "ok", results |-> results]
    ELSE LET m == entry_matches(entry_list[k], lemmas)
         IN  IF m = "TypeError" THEN [status |-> "TypeError", results |-> <<>>]
             ELSE search_loop(entry_list, k + 1, lemmas,
                              IF m = "match" THEN Append(results, k) ELSE results)

search_with_lemma(query, entry_list) ==
    search_loop(entry_list, 1, query_lemmas(query), <<>>)

--------------------------------------------------------------------------
(* The utilities called on a text *)

\* texts hold up to MaxTextLen code points
MaxTextLen == 3

\* the hash seeds of a process are 0..MaxSeed
MaxSeed == 2

\* omicron, upsilon, nu, capital sigma, omicron with tonos, omega with
\* ypogegrammeni, the combining acute accent, the space
TextAlphabet == {959, 965, 957, 931, 972, 8179, 769, 32}

Texts == UNION {[1..n -> TextAlphabet] : n \in 0..MaxTextLen}

HashSeeds == 0..MaxSeed

\* no thematic-map request is in progress
NoMapRequest ==
    /\ divisions = <<>> /\ entries = <<>> /\ mode = "" /\ pc = "idle"
    /\ division_entries = <<>> /\ response = NoResponse

InitText ==
    /\ NoMapRequest /\ NoDatabase
    /\ fn = "" /\ arg \in Texts \cup {NoText} /\ ret = None
    /\ catalogue = <<>>
    /\ hash_seed \in HashSeeds

Normalize ==
    /\ fn = ""
    /\ fn' = "normalize_greek"
    /\ ret' = normalize_greek(arg)
    /\ UNCHANGED <<map_vars, arg, catalogue, hash_seed>>
    /\ UNCHANGED db_vars

ExtractWords ==
    /\ fn = ""
    /\ fn' = "extract_greek_words"
    /\ ret' = extract_greek_words(arg)
    /\ UNCHANGED <<map_vars, arg, catalogue, hash_seed>>
    /\ UNCHANGED db_vars

Lemmatize ==
    /\ fn = ""
    /\ fn' = "simple_lemmatize"
    /\ ret' = simple_lemmatize(arg, hash_seed)
    /\ UNCHANGED <<map_vars, arg, catalogue, hash_seed>>
    /\ UNCHANGED db_vars

BuildIndex ==
    /\ fn = ""
    /\ fn' = "build_lemma_index"
    /\ ret' = build_lemma_index(arg, hash_seed)
    /\ UNCHANGED <<map_vars, arg, catalogue, hash_seed>>
    /\ UNCHANGED db_vars

NextText == Normalize \/ ExtractWords \/ Lemmatize \/ BuildIndex

SpecText == InitText /\ [][NextText]_vars

--------------------------------------------------------------------------
(* Properties of the lemmatization utilities *)

\* the rules whose pattern matches a normalized word
MatchingRules(normalized) ==
    {r \in 1..Len(GREEK_LEMMA_RULES) : rule_matches(GREEK_LEMMA_RULES[r][1], normalized)}

\* the rewritten form of rule r
Rewritten(r, normalized) ==
    rule_rewrite(GREEK_LEMMA_RULES[r][1], GREEK_LEMMA_RULES[r][2], normalized)

\* C14: simple_lemmatize(w) is exactly the set union of {normalize_greek(w)} and
\* the rewritten form of every rule whose pattern matches the normalized word, each
\* rule on its own; it holds normalize_greek(w) and is never empty.
C14_LemmasAreSeedAndRules ==
    fn = "simple_lemmatize" =>
        LET normalized == normalize_greek(arg)
        IN  /\ Elements(ret) # {}
            /\ normalized \in Elements(ret)
            /\ \A r \in MatchingRules(normalized) :
                   Rewritten(r, normalized) \in Elements(ret)
            /\ \A x \in Elements(ret) :
                   \/ x = normalized
                   \/ \E r \in MatchingRules(normalized) : x = Rewritten(r, normalized)

\* a word that two rules rewrite to different lemmas
C14_Witness ==
    /\ fn = "simple_lemmatize"
    /\ \E r, q \in MatchingRules(normalize_greek(arg)) :
           Rewritten(r, normalize_greek(arg)) # Rewritten(q, normalize_greek(arg))
    /\ Cardinality(Elements(ret)) = 3

\* a list of positions is strictly ascending
Ascending(list) == \A i, j \in 1..Len(list) : i < j => list[i] < list[j]

\* C15: for a body with words w_0..w_(n-1), build_lemma_index maps each lemma L to
\* the ascending list of exactly the positions p with L in simple_lemmatize(w_p);
\* every position 0..n-1 is in some list and no list holds a position outside 0..n-1.
C15_IndexPositionsExact ==
    fn = "build_lemma_index" =>
        LET words == extract_greek_words(arg)
            n == Len(words)
            members == ret.members
            PositionsOf(L) == {p \in 0..(n - 1) : L \in lemma_set(words[p + 1])}
        IN  /\ ret.kind = "object"
            /\ \A j, k \in 1..Len(members) : members[j][1] = members[k][1] => j = k
            /\ \A k \in 1..Len(members) :
                   /\ Ascending(members[k][2])
                   /\ Elements(members[k][2]) = PositionsOf(members[k][1])
                   /\ Elements(members[k][2]) \subseteq 0..(n - 1)
            /\ \A p \in 0..(n - 1) :
                   /\ \E k \in 1..Len(members) : p \in Elements(members[k][2])
                   /\ \A L \in lemma_set(words[p + 1]) :
                          \E k \in 1..Len(members) : members[k][1] = L

\* a body of two words that share a lemma
C15_Witness ==
    /\ fn = "build_lemma_index"
    /\ Len(extract_greek_words(arg)) = 2
    /\ \E k \in 1..Len(ret.members) : ret.members[k][2] = <<0, 1>>

\* C17: normalize_greek(normalize_greek(x)) = normalize_greek(x) for every text x,
\* and an empty or absent input gives the empty string.
C17_NormalizeIdempotent ==
    fn = "normalize_greek" =>
        /\ normalize_greek(ret) = ret
        /\ IsEmptyText(arg) => ret = <<>>

\* a text with a capital sigma and an accent, both changed by the normalization
C17_Witness ==
    /\ fn = "normalize_greek"
    /\ 931 \in Elements(arg)
    /\ Elements(arg) \cap {769, 972, 8179} # {}
    /\ ret # arg

\* the runs of Greek code points with the combining marks that follow a Greek code
\* point kept in the run; run is the run being read
RECURSIVE RunsKeepingMarks(_, _)
RunsKeepingMarks(text, run) ==
    IF text = <<>> THEN (IF run = <<>> THEN <<>> ELSE <<run>>)
    ELSE IF IsGreek(Head(text)) \/ (IsMn(Head(text)) /\ run # <<>>)
         THEN RunsKeepingMarks(Tail(text), Append(run, Head(text)))
    ELSE (IF run = <<>> THEN <<>> ELSE <<run>>) \o RunsKeepingMarks(Tail(text), <<>>)

\* C18: extract_greek_words returns, left to right, the maximal runs of Greek
\* letters with the combining marks kept inside the run they belong to (a
\* combining mark does not split a word), unchanged; no empty token is returned.
C18_RunsKeepCombiningMarks ==
    fn = "extract_greek_words" =>
        /\ ret = (IF IsEmptyText(arg) THEN <<>> ELSE RunsKeepingMarks(arg, <<>>))
        /\ \A i \in 1..Len(ret) : ret[i] # <<>>

--------------------------------------------------------------------------
(* The catalogue: entries saved with their lemma index, and the lemma search *)

\* the catalogue holds up to MaxEntries entries
MaxEntries == 2

\* three bodies in precomposed spelling: omicron upsilon; omicron-with-tonos nu;
\* and the two words omega-with-ypogegrammeni nu, omicron upsilon
Bodies == {<<959, 965>>, <<972, 957>>, <<8179, 957, 32, 959, 965>>}

\* omicron upsilon; the same word with a combining acute accent after the
\* omicron (decomposed spelling); omega-with-ypogegrammeni nu; and a query
\* without a Greek word
Queries == {<<959, 965>>, <<959, 769, 965>>, <<8179, 957>>, <<32>>}

\* what a client can store in the lemma_index column without a body: nothing,
\* '', text that is no JSON, a JSON number and a JSON array holding the
\* string omicron sigma
RawIndexes ==
    {JsonText("NULL", <<>>), JsonText("empty", <<>>), JsonText("invalid", <<>>),
     JsonText("number", <<>>), JsonText("array", <<(<<959, 962>>)>>)}

CatalogueEntry(body_greek, lemma_index) ==
    [body_greek |-> body_greek, lemma_index |-> lemma_index]

InitCatalogue ==
    /\ NoMapRequest /\ NoDatabase
    /\ fn = "" /\ arg = NoText /\ ret = None
    /\ catalogue = <<>>
    /\ hash_seed \in HashSeeds

\* create_entry with a Greek body: the index is built from the body
CreateEntry ==
    /\ Len(catalogue) < MaxEntries
    /\ \E body \in Bodies :
           catalogue' = Append(catalogue,
               CatalogueEntry(body, build_lemma_index(body, hash_seed)))
    /\ fn' = "create_entry" /\ arg' = NoText /\ ret' = None
    /\ UNCHANGED <<map_vars, hash_seed>>
    /\ UNCHANGED db_vars

\* create_entry without a body: Entry(**data) stores the lemma_index of the request
CreateEntryWithIndex ==
    /\ Len(catalogue) < MaxEntries
    /\ \E raw \in RawIndexes :
           catalogue' = Append(catalogue, CatalogueEntry(NoText, raw))
    /\ fn' = "create_entry" /\ arg' = NoText /\ ret' = None
    /\ UNCHANGED <<map_vars, hash_seed>>
    /\ UNCHANGED db_vars

\* reindex_lemmas: the index of every entry with a body is built again
ReindexLemmas ==
    /\ catalogue # <<>>
    /\ catalogue' =
           [i \in 1..Len(catalogue) |->
               IF IsEmptyText(catalogue[i].body_greek) THEN catalogue[i]
               ELSE CatalogueEntry(catalogue[i].body_greek,
                        build_lemma_index(catalogue[i].body_greek, hash_seed))]
    /\ fn' = "reindex_lemmas" /\ arg' = NoText /\ ret' = None
    /\ UNCHANGED <<map_vars, hash_seed>>
    /\ UNCHANGED db_vars

\* the server process is started again: str hashes get another seed
RestartProcess ==
    /\ \E seed \in HashSeeds \ {hash_seed} : hash_seed' = seed
    /\ fn' = "" /\ arg' = NoText /\ ret' = None
    /\ UNCHANGED <<map_vars, catalogue>>
    /\ UNCHANGED db_vars

\* get_entries with lemma_search=true over all entries
Search ==
    /\ \E query \in Queries :
           /\ arg' = query
           /\ ret' = search_with_lemma(query, catalogue)
    /\ fn' = "search_with_lemma"
    /\ UNCHANGED <<map_vars, catalogue, hash_seed>>
    /\ UNCHANGED db_vars

NextCatalogue ==
    CreateEntry \/ CreateEntryWithIndex \/ ReindexLemmas \/ RestartProcess \/ Search

SpecCatalogue == InitCatalogue /\ [][NextCatalogue]_vars

--------------------------------------------------------------------------
(* Properties of the lemma search *)

\* the entries whose lemma index build_lemma_index wrote from their body
BuiltEntries == {i \in 1..Len(catalogue) : ~IsEmptyText(catalogue[i].body_greek)}

\* the keys of the index of entry i
IndexKeys(i) ==
    {catalogue[i].lemma_index.members[k][1] :
        k \in 1..Len(catalogue[i].lemma_index.members)}

\* C11: for every entry E whose index build_lemma_index built and every key L of
\* that index, a query consisting of a Greek word w with L in simple_lemmatize(w)
\* returns E among the matches.
C11_SearchSound ==
    fn = "search_with_lemma" =>
        \A i \in BuiltEntries :
            IndexKeys(i) \cap lemma_set(arg) # {} =>
                ret.status = "ok" /\ i \in Elements(ret.results)

\* the entries whose index is absent or malformed
MalformedEntries ==
    {i \in 1..Len(catalogue) : catalogue[i].lemma_index.kind # "object"}

\* C12: during search_with_lemma an entry whose index is absent or malformed is
\* no match: it is left out of the result, no error reaches the caller, and the
\* other entries are still evaluated.
C12_MalformedIndexSkipped ==
    fn = "search_with_lemma" =>
        /\ ret.status = "ok"
        /\ Elements(ret.results) \cap MalformedEntries = {}

\* the entries whose index holds a lemma of the query-expansion set
MatchingEntries(query) ==
    {i \in 1..Len(catalogue) :
        /\ catalogue[i].lemma_index.kind = "object"
        /\ IndexKeys(i) \cap
           UNION {Elements(simple_lemmatize(w, hash_seed)) :
                     w \in Elements(extract_greek_words(query))} # {}}

\* C13: the result of search_with_lemma is exactly the subsequence of the input
\* entries whose index holds a lemma of the query-expansion set: input order kept,
\* each match once, no other entry, and empty for a query without a Greek word.
C13_ResultIsMatchingSubsequence ==
    fn = "search_with_lemma" =>
        /\ ret.status = "ok"
        /\ ret.results = SelectSeq([i \in 1..Len(catalogue) |-> i],
                                   LAMBDA i : i \in MatchingEntries(arg))
        /\ extract_greek_words(arg) = <<>> => ret.results = <<>>

\* C16: the index rebuilt from the same body text is the same serialized text,
\* the order of the lemma keys included, whatever the iteration order of the set
\* of candidate lemmas.
C16_SameBodySameIndexText ==
    \A i, j \in BuiltEntries :
        catalogue[i].body_greek = catalogue[j].body_greek =>
            catalogue[i].lemma_index = catalogue[j].lemma_index

--------------------------------------------------------------------------
(* Group labels and author colours *)

\* get_school_group of the school network: the same test as get_group in school mode
get_school_group(entry) ==
    IF entry.source_author_rel.present
    THEN IF entry.source_author_rel.name # ""
            /\ ContainsGalen(entry.source_author_rel.name)
         THEN "Galen"
         ELSE IF entry.source_author_rel.sect \in SchoolSects
              THEN entry.source_author_rel.sect
              ELSE "Other"
    ELSE "Other"

\* the resolved authors of the model: none, or a name with a sect; '' stands for
\* an empty name and for a NULL sect
GroupAuthors ==
    {NoAuthor} \cup
    {Author(name, sect) :
        name \in {"Galen", "Pseudo-Galen", "Rufus", ""},
        sect \in SchoolSects \cup {"Rationalist", ""}}

GroupEntries ==
    {Entry(1, None, None, None, rel, author) :
        rel \in GroupAuthors, author \in {"", "Anon"}}

InitGroup ==
    /\ NoMapRequest /\ NoDatabase
    /\ fn = "" /\ ret = None
    /\ arg \in [entry : GroupEntries, mode : Modes]
    /\ catalogue = <<>> /\ hash_seed = 0

GroupEntry ==
    /\ fn = ""
    /\ fn' = "get_group"
    /\ ret' = get_group(arg.entry, arg.mode)
    /\ UNCHANGED <<map_vars, arg, catalogue, hash_seed>>
    /\ UNCHANGED db_vars

SchoolGroup ==
    /\ fn = "" /\ arg.mode = "school"
    /\ fn' = "get_school_group"
    /\ ret' = get_school_group(arg.entry)
    /\ UNCHANGED <<map_vars, arg, catalogue, hash_seed>>
    /\ UNCHANGED db_vars

NextGroup == GroupEntry \/ SchoolGroup

SpecGroup == InitGroup /\ [][NextGroup]_vars

--------------------------------------------------------------------------
(* build_author_colors *)

\* the labels of the model are Label(1)..Label(MaxLabels)
MaxLabels == 27

\* a capital letter and a small letter; the order of the labels is not the order
\* of their numbers
Label(k) == <<65 + (k % 9), 97 + (k \div 9)>>

\* the labels k..m collected in ascending or in descending order of their numbers
LabelLists ==
    {[i \in 1..n |-> Label(a + i - 1)] : a \in 1..MaxLabels, n \in 0..MaxLabels}
    \cup {[i \in 1..n |-> Label(a - i + 1)] : a \in 1..MaxLabels, n \in 0..MaxLabels}

InitColors ==
    /\ NoMapRequest /\ NoDatabase
    /\ fn = "" /\ ret = None
    /\ arg \in {list \in LabelLists :
                  Elements(list) \subseteq {Label(k) : k \in 1..MaxLabels}}
    /\ catalogue = <<>> /\ hash_seed = 0

BuildAuthorColors ==
    /\ fn = ""
    /\ fn' = "build_author_colors"
    /\ ret' = build_author_colors(arg)
    /\ UNCHANGED <<map_vars, arg, catalogue, hash_seed>>
    /\ UNCHANGED db_vars

NextColors == BuildAuthorColors

SpecColors == InitColors /\ [][NextColors]_vars

\* the number of labels of a set that sort before name
RankIn(S, name) == Cardinality({other \in S : TupleLess(other, name)})

\* C19: build_author_colors maps each label of the set to the palette entry at
\* index (rank of the label in the sorted set) modulo the palette length; the
\* mapping is the same whatever the order in which the labels were collected.
C19_ColorsByRank ==
    fn = "build_author_colors" =>
        /\ DOMAIN ret = Elements(arg)
        /\ \A name \in Elements(arg) :
               ret[name] = AUTHOR_PALETTE[(RankIn(Elements(arg), name)
                                            % Len(AUTHOR_PALETTE)) + 1]
        /\ \A other \in LabelLists :
               Elements(other) = Elements(arg) => build_author_colors(other) = ret

\* more labels than palette entries, collected in descending order
C19_Witness ==
    /\ fn = "build_author_colors"
    /\ Cardinality(Elements(arg)) > Len(AUTHOR_PALETTE)
    /\ arg[1] = Label(MaxLabels)
    /\ \E a, b \in Elements(arg) : a # b /\ ret[a] = ret[b]

--------------------------------------------------------------------------
(* C22, C26, C28: candidates without a book range, the walk, the colours *)

\* the chapter range of a division, when it has one, holds the entry's chapter
ChapterAdmits(d, entry) ==
    HasChapterRange(d) =>
        /\ entry.chapter # None
        /\ d.chapter_start <= entry.chapter /\ entry.chapter <= d.chapter_end

NoBookRange(d) == d.books_start = None /\ d.books_end = None

\* C22: a division whose book range is absent applies no book filter: it is a
\* candidate of every entry with a book whose chapter its chapter range, if any,
\* admits, whatever the entry's book number.
C22_AbsentBookRangeNoFilter ==
    \A e \in WithBook : \A d \in DivisionSet :
        NoBookRange(d) /\ ChapterAdmits(d, entries[e]) => d \in LoopCandidates(e)

\* each division has both chapter_start and chapter_end, or neither
ChapterRangesWhole ==
    \A d \in DivisionSet : (d.chapter_start = None) <=> (d.chapter_end = None)

\* C26: in an acyclic division forest whose chapter ranges are each fully present
\* or fully absent, every entry with at least one candidate division is assigned
\* to exactly one division: the walk never rejects every candidate.
C26_CandidateEntryAssigned ==
    (LoopDone /\ ~HasCycle /\ ChapterRangesWhole) =>
        \A e \in WithBook :
            LoopCandidates(e) # {} => Cardinality(Places(e)) = 1

\* the walk has passed over a candidate with a matching child and assigned the
\* entry to a later one
C26_Witness ==
    /\ LoopDone /\ ~HasCycle /\ ChapterRangesWhole
    /\ \E e \in WithBook :
          /\ Cardinality(Places(e)) = 1
          /\ LET found == matching_divs(entries[e])
                 ranked == SortedBy(found, [i \in 1..Len(found) |->
                                               specificity_key(found[i])])
             IN  /\ Len(ranked) >= 2
                 /\ has_matching_children(ranked[1], entries[e]) = "yes"
                 /\ ranked[1].id \notin AssignedTo(e)

\* C28: in the thematic-map response every group label that is a key of some
\* node's group_counts has an entry in colors, in school mode and in author mode.
C28_EveryGroupHasColor ==
    (pc = "done" /\ response.status = "ok") =>
        \A node \in NodeSet : DOMAIN node.group_counts \subseteq DOMAIN response.colors

--------------------------------------------------------------------------
(* The book maps: get_book_map and get_book_map_v2 *)

\* e.book if e.book is not None else 'Unknown', and the same for the chapter; in
\* the keys of the model None stands for 'Unknown'
bucket_key(entry) == <<entry.book, entry.chapter>>

\* (e.word_count or 0) or 1
weight(entry) == IF IsTruthy(entry.word_count) THEN entry.word_count ELSE 1

\* author_name of an entry
author_name(entry) ==
    IF entry.source_author_rel.present THEN entry.source_author_rel.name
    ELSE IF entry.author # "" THEN entry.author ELSE "Unknown"

\* author_words[name]: the words of the entries of one author
author_words(entry_list, name) ==
    SumSeq([i \in 1..Len(entry_list) |->
               IF author_name(entry_list[i]) = name
               THEN OrZero(entry_list[i].word_count) ELSE 0])

total_words(entry_list) ==
    SumSeq([i \in 1..Len(entry_list) |-> OrZero(entry_list[i].word_count)])

\* major_authors; threshold is the fraction threshold[1] / threshold[2]
major_authors(entry_list, threshold) ==
    {name \in {author_name(entry_list[i]) : i \in 1..Len(entry_list)} :
        /\ total_words(entry_list) > 0
        /\ author_words(entry_list, name) * threshold[2]
               >= threshold[1] * total_words(entry_list)}

get_author_group(entry, major) ==
    IF author_name(entry) \in major THEN author_name(entry) ELSE "Other"

\* the label an entry adds its weight to: the author's name in get_book_map,
\* the school or author group in get_book_map_v2
bucket_label(entry, route, m, major) ==
    IF route = "get_book_map" THEN author_name(entry)
    ELSE IF m = "school" THEN get_school_group(entry)
    ELSE get_author_group(entry, major)

\* counts[label] += w on a defaultdict(int): a new label goes to the end
counts_add(counts, label, w) ==
    IF \E i \in 1..Len(counts) : counts[i].label = label
    THEN [i \in 1..Len(counts) |->
             IF counts[i].label = label
             THEN [label |-> label, value |-> counts[i].value + w]
             ELSE counts[i]]
    ELSE Append(counts, [label |-> label, value |-> w])

\* the bucket of the entry updated, or a new bucket put at the end
bucket_add(buckets, entry, label) ==
    LET fresh == [key |-> bucket_key(entry), entries |-> 0, word_count |-> 0,
                  counts |-> <<>>]
        all == IF \E i \in 1..Len(buckets) : buckets[i].key = bucket_key(entry)
               THEN buckets ELSE Append(buckets, fresh)
    IN  [i \in 1..Len(all) |->
            IF all[i].key = bucket_key(entry)
            THEN [key |-> all[i].key,
                  entries |-> all[i].entries + 1,
                  word_count |-> all[i].word_count + OrZero(entry.word_count),
                  counts |-> counts_add(all[i].counts, label, weight(entry))]
            ELSE all[i]]

\* the loop over the entries
RECURSIVE bucket_loop(_, _, _, _, _)
bucket_loop(todo, buckets, route, m, major) ==
    IF Len(todo) = 0 THEN buckets
    ELSE bucket_loop(Tail(todo),
                     bucket_add(buckets, Head(todo),
                                bucket_label(Head(todo), route, m, major)),
                     route, m, major)

\* the last of the labels of greatest value
dominant_last(counts, default) ==
    IF Len(counts) = 0 THEN default
    ELSE LET last == CHOOSE i \in 1..Len(counts) :
                         /\ \A j \in 1..Len(counts) : counts[j].value <= counts[i].value
                         /\ \A j \in (i + 1)..Len(counts) :
                                counts[j].value < counts[i].value
         IN  counts[last].label

\* max(counts.items(), key=lambda x: x[1])[0]: the first item of greatest value
dominant(counts, default) ==
    IF Len(counts) = 0 THEN default
    ELSE LET first == CHOOSE i \in 1..Len(counts) :
                          /\ \A j \in 1..Len(counts) : counts[j].value <= counts[i].value
                          /\ \A j \in 1..(i - 1) : counts[j].value < counts[i].value
         IN  counts[first].label

\* (9999 if key == 'Unknown' else int(key), str(key)): of equal numbers the
\* string '9999' sorts before 'Unknown'
map_sort_key(key) == IF key = None THEN <<9999, 1>> ELSE <<key, 0>>

\* author_colors of a list of names
colors_of_names(names) ==
    LET by_text == build_author_colors([i \in 1..Len(names) |-> NameText(names[i])])
    IN  [name \in Elements(names) |-> by_text[NameText(name)]]

\* colors of the response: author colours in get_book_map; in get_book_map_v2 the
\* school colours, or the author colours with 'Other' set when missing
map_colors(entry_list, route, m) ==
    LET names == [i \in 1..Len(entry_list) |-> author_name(entry_list[i])]
    IN  IF route = "get_book_map" THEN colors_of_names(names)
        ELSE IF m = "school" THEN SCHOOL_COLORS
        ELSE setdefault(colors_of_names(names), "Other", "#999999")

\* colors.get(label, '#999999')
color_get(palette, label) ==
    IF label \in DOMAIN palette THEN palette[label] ELSE "#999999"

\* one chapter item of the response
chapter_item(bucket, route, palette) ==
    LET top == dominant(bucket.counts,
                        IF route = "get_book_map" THEN "Unknown" ELSE "Other")
    IN  [chapter |-> bucket.key[2],
         entries |-> bucket.entries,
         word_count |-> bucket.word_count,
         dominant |-> top,
         breakdown |-> bucket.counts,
         color |-> color_get(palette, top)]

\* the keys of a list of buckets in the order of their first occurrence
RECURSIVE first_keys(_, _, _)
first_keys(buckets, k, seen) ==
    IF Len(buckets) = 0 THEN <<>>
    ELSE IF Head(buckets).key[k] \in seen THEN first_keys(Tail(buckets), k, seen)
    ELSE <<Head(buckets).key[k]>>
         \o first_keys(Tail(buckets), k, seen \cup {Head(buckets).key[k]})

\* books_list: per book the chapter items sorted by chapter, the books sorted
books_list(buckets, route, palette) ==
    LET book_keys == first_keys(buckets, 1, {})
        chapters(b) ==
            LET own == SelectSeq(buckets, LAMBDA x : x.key[1] = b)
                items == [i \in 1..Len(own) |-> chapter_item(own[i], route, palette)]
            IN  SortedBy(items, [i \in 1..Len(items) |->
                                    map_sort_key(items[i].chapter)])
        unsorted == [i \in 1..Len(book_keys) |->
                        [book |-> book_keys[i], chapters |-> chapters(book_keys[i])]]
    IN  SortedBy(unsorted, [i \in 1..Len(unsorted) |-> map_sort_key(unsorted[i].book)])

\* the response of get_book_map (no mode, no threshold) and of get_book_map_v2
book_map(entry_list, route, m, threshold) ==
    LET major == IF route = "get_book_map" THEN {}
                 ELSE major_authors(entry_list, threshold)
        palette == map_colors(entry_list, route, m)
    IN  [status |-> "ok", mode |-> m,
         structure |-> books_list(bucket_loop(entry_list, <<>>, route, m, major),
                                  route, palette),
         colors |-> palette]

--------------------------------------------------------------------------
(* The requests GET /api/book-map and GET /api/book-map-v2 over a store of entries *)

\* the longest entry store of the book maps
MaxMapEntries == 3

\* the entries a store of the book maps is made of: in book 1 by a resolved
\* author, by a legacy author and by nobody's school, with the word count missing,
\* zero and positive; and two entries without a book
MapAuthorChoices ==
    { <<Author("Galen", "Dogmatist"), "">>, <<Author("Rufus", "Pneumatist"), "">>,
      <<NoAuthor, "Anon">> }

MapEntries ==
    {[book |-> 1, chapter |-> 1, word_count |-> wc,
      source_author_rel |-> a[1], author |-> a[2]] :
        wc \in {None, 0, 2}, a \in MapAuthorChoices}
    \cup {[book |-> None, chapter |-> 1, word_count |-> 2,
           source_author_rel |-> Author("Galen", "Dogmatist"), author |-> ""],
          [book |-> None, chapter |-> None, word_count |-> None,
           source_author_rel |-> NoAuthor, author |-> ""]}

MapStores == UNION {[1..n -> MapEntries] : n \in 0..MaxMapEntries}

\* threshold=0.05, the default, and threshold=0.5
Thresholds == {<<1, 20>>, <<1, 2>>}

InitBook ==
    /\ divisions = <<>> /\ division_entries = <<>>
    /\ entries \in MapStores
    /\ mode = "" /\ pc = "start" /\ response = NoResponse
    /\ fn = "" /\ arg = None /\ ret = None /\ catalogue = <<>> /\ hash_seed = 0
    /\ NoDatabase

\* GET /api/book-map
BookMap ==
    /\ pc = "start"
    /\ fn' = "get_book_map"
    /\ response' = book_map(entries, "get_book_map", "", <<0, 1>>)
    /\ pc' = "done"
    /\ UNCHANGED <<divisions, entries, mode, division_entries>>
    /\ UNCHANGED <<arg, ret, catalogue, hash_seed>>
    /\ UNCHANGED db_vars

\* GET /api/book-map-v2?mode=..&threshold=..
BookMapV2 ==
    /\ pc = "start"
    /\ \E m \in Modes : \E threshold \in Thresholds :
           /\ mode' = m
           /\ arg' = threshold
           /\ response' = book_map(entries, "get_book_map_v2", m, threshold)
    /\ fn' = "get_book_map_v2"
    /\ pc' = "done"
    /\ UNCHANGED <<divisions, entries, division_entries>>
    /\ UNCHANGED <<ret, catalogue, hash_seed>>
    /\ UNCHANGED db_vars

NextBook == BookMap \/ BookMapV2

SpecBook == InitBook /\ [][NextBook]_vars

--------------------------------------------------------------------------
(* C21, C29 *)

\* the chapter items of the response, each with the key of its book
ChapterItems ==
    UNION {{[book |-> response.structure[i].book,
             item |-> response.structure[i].chapters[j]] :
                j \in 1..Len(response.structure[i].chapters)} :
           i \in 1..Len(response.structure)}

\* the label of an entry in the request that was answered
LabelOf(e) ==
    bucket_label(entries[e], fn, mode,
                 IF fn = "get_book_map" THEN {} ELSE major_authors(entries, arg))

\* the entries of a bucket, in iteration order
BucketEntries(c) ==
    {e \in 1..Len(entries) : bucket_key(entries[e]) = <<c.book, c.item.chapter>>}

\* the weight a label has accumulated in a bucket
LabelWeight(c, label) ==
    SumSeq([e \in 1..Len(entries) |->
               IF e \in BucketEntries(c) /\ LabelOf(e) = label
               THEN weight(entries[e]) ELSE 0])

BucketLabels(c) == {LabelOf(e) : e \in BucketEntries(c)}

\* the place in the iteration at which a label is first met in a bucket
FirstMet(c, label) ==
    CHOOSE e \in BucketEntries(c) :
        LabelOf(e) = label /\ \A o \in BucketEntries(c) : LabelOf(o) = label => e <= o

\* C21: for every book-chapter bucket of a book map the reported dominant label
\* has the greatest accumulated weight of the bucket's labels, and of several
\* labels of that weight it is the one first met in the iteration over the entries.
C21_DominantIsFirstMaximum ==
    pc = "done" =>
        \A c \in ChapterItems :
            /\ c.item.dominant \in BucketLabels(c)
            /\ \A label \in BucketLabels(c) :
                   /\ LabelWeight(c, label) <= LabelWeight(c, c.item.dominant)
                   /\ (LabelWeight(c, label) = LabelWeight(c, c.item.dominant)
                       /\ label # c.item.dominant)
                          => FirstMet(c, c.item.dominant) < FirstMet(c, label)

\* a bucket in which two labels tie for the greatest weight, and a bucket in
\* which the greatest label is not the first one met
C21_Witness ==
    /\ pc = "done"
    /\ \E c \in ChapterItems : \E label \in BucketLabels(c) :
          /\ label # c.item.dominant
          /\ LabelWeight(c, label) = LabelWeight(c, c.item.dominant)
    /\ \E c \in ChapterItems : \E label \in BucketLabels(c) :
          /\ LabelWeight(c, label) < LabelWeight(c, c.item.dominant)
          /\ FirstMet(c, label) < FirstMet(c, c.item.dominant)

\* C29: in the book-map-v2 response the values of every bucket's group_breakdown
\* sum to the bucket's word_count, entries without words included.
C29_BreakdownSumsToWordCount ==
    (pc = "done" /\ fn = "get_book_map_v2") =>
        \A c \in ChapterItems :
            SumSeq([i \in 1..Len(c.item.breakdown) |-> c.item.breakdown[i].value])
                = c.item.word_count

--------------------------------------------------------------------------
(* The entry store: create_entry, update_entry, import_csv, reindex_lemmas *)

\* the characters \S does not match and str.strip() removes
IsSpace(c) == c \in {9, 10, 11, 12, 13, 28, 29, 30, 31, 32, 133, 160}

\* len(re.findall(r'\S+', text)): the number of maximal runs without whitespace;
\* in_run tells that the character before was of a run
RECURSIVE count_tokens(_, _)
count_tokens(text, in_run) ==
    IF text = <<>> THEN 0
    ELSE IF IsSpace(Head(text)) THEN count_tokens(Tail(text), FALSE)
    ELSE (IF in_run THEN 0 ELSE 1) + count_tokens(Tail(text), TRUE)

\* value.strip()
RECURSIVE strip(_)
strip(text) ==
    IF text = <<>> THEN <<>>
    ELSE IF IsSpace(Head(text)) THEN strip(Tail(text))
    ELSE IF IsSpace(text[Len(text)]) THEN strip(SubSeq(text, 1, Len(text) - 1))
    ELSE text

\* an Entry row: the columns body_greek, lemma_index and word_count
StoredEntry(body_greek, lemma_index, word_count) ==
    [body_greek |-> body_greek, lemma_index |-> lemma_index, word_count |-> word_count]

\* the value of a field of the request's JSON object, or the column's default
field_or(data, field, default) == IF field \in DOMAIN data THEN data[field] ELSE default

\* create_entry: Entry(**data), then word count and index from a body that is
\* not empty
create_entry(data, seed) ==
    LET body == field_or(data, "body_greek", NoText)
    IN  IF IsEmptyText(body)
        THEN StoredEntry(body, field_or(data, "lemma_index", JsonText("NULL", <<>>)),
                         field_or(data, "word_count", None))
        ELSE StoredEntry(body, build_lemma_index(body, seed), count_tokens(body, FALSE))

\* the recompute step before the loop over the fields: what the request supplies
\* for lemma_index and word_count stays
update_entry_recompute_first(entry, data, seed) ==
    LET body == field_or(data, "body_greek", entry.body_greek)
        computed == IF "body_greek" \in DOMAIN data
                    THEN StoredEntry(body, build_lemma_index(body, seed),
                             count_tokens(IF IsEmptyText(body) THEN <<>> ELSE body, FALSE))
                    ELSE entry
    IN  StoredEntry(body, field_or(data, "lemma_index", computed.lemma_index),
                    field_or(data, "word_count", computed.word_count))

\* update_entry: setattr for every field of the request, then, when the request
\* holds body_greek, word count and index from the body
update_entry(entry, data, seed) ==
    LET body == field_or(data, "body_greek", entry.body_greek)
    IN  IF "body_greek" \in DOMAIN data
        THEN StoredEntry(body, build_lemma_index(body, seed),
                         count_tokens(IF IsEmptyText(body) THEN <<>> ELSE body, FALSE))
        ELSE StoredEntry(body, field_or(data, "lemma_index", entry.lemma_index),
                         field_or(data, "word_count", entry.word_count))

\* get_value(row, ...): the cell stripped, None for a missing or blank cell
get_value(cell) ==
    IF cell = NoText THEN NoText
    ELSE IF strip(cell) = <<>> THEN NoText ELSE strip(cell)

\* one row of import_csv; row.word_count is the result of parse_int
import_row(row, seed) ==
    LET body == get_value(row.body_greek)
    IN  IF body = NoText
        THEN StoredEntry(NoText, JsonText("NULL", <<>>), OrZero(row.word_count))
        ELSE StoredEntry(body, build_lemma_index(body, seed),
                         IF IsTruthy(row.word_count) THEN row.word_count
                         ELSE count_tokens(body, FALSE))

\* reindex_lemmas over one entry
reindex_entry(entry, seed) ==
    IF IsEmptyText(entry.body_greek) THEN entry
    ELSE StoredEntry(entry.body_greek, build_lemma_index(entry.body_greek, seed),
                     entry.word_count)

\* the store holds up to MaxStored entries
MaxStored == 1

\* no body; and the two words omicron-with-tonos nu, omicron upsilon
StoreBodies == {NoText, <<972, 957, 32, 959, 965>>}

\* values a request can give for lemma_index: null and a text that is no index
SuppliedIndexes == {JsonText("NULL", <<>>), JsonText("invalid", <<>>)}

SuppliedCounts == {7}

\* the JSON objects of the requests: each of the three fields present or not
RequestData ==
    {body @@ index @@ count :
        body \in {<<>>} \cup {("body_greek" :> b) : b \in StoreBodies},
        index \in {<<>>} \cup {("lemma_index" :> x) : x \in SuppliedIndexes},
        count \in {<<>>} \cup {("word_count" :> n) : n \in SuppliedCounts}}

\* the rows of a CSV file: the body cell missing, blank, or omicron upsilon with a
\* space after it; the word count missing or given
CsvRows ==
    {[body_greek |-> b, word_count |-> n] :
        b \in {NoText, <<32>>, <<959, 965, 32>>},
        n \in {None} \cup SuppliedCounts}

InitStore ==
    /\ NoMapRequest /\ NoDatabase
    /\ fn = "" /\ arg = NoText /\ ret = None
    /\ catalogue = <<>>
    /\ hash_seed \in HashSeeds

\* POST /api/entries
PostEntry ==
    /\ Len(catalogue) < MaxStored
    /\ \E data \in RequestData :
           /\ catalogue' = Append(catalogue, create_entry(data, hash_seed))
           /\ arg' = [id |-> Len(catalogue) + 1, data |-> data]
    /\ fn' = "create_entry" /\ ret' = None
    /\ UNCHANGED <<map_vars, hash_seed>>
    /\ UNCHANGED db_vars

\* PUT /api/entries/<id> for an entry of the store
PutEntry ==
    /\ \E id \in 1..Len(catalogue) : \E data \in RequestData :
           /\ catalogue' = [catalogue EXCEPT ![id] = update_entry(@, data, hash_seed)]
           /\ arg' = [id |-> id, data |-> data]
    /\ fn' = "update_entry" /\ ret' = None
    /\ UNCHANGED <<map_vars, hash_seed>>
    /\ UNCHANGED db_vars

\* POST /api/import with a file of one row
ImportCsv ==
    /\ Len(catalogue) < MaxStored
    /\ \E row \in CsvRows :
           /\ catalogue' = Append(catalogue, import_row(row, hash_seed))
           /\ arg' = [id |-> Len(catalogue) + 1, data |-> row]
    /\ fn' = "import_csv" /\ ret' = None
    /\ UNCHANGED <<map_vars, hash_seed>>
    /\ UNCHANGED db_vars

\* POST /api/reindex-lemmas
PostReindexLemmas ==
    /\ catalogue # <<>>
    /\ catalogue' = [i \in 1..Len(catalogue) |-> reindex_entry(catalogue[i], hash_seed)]
    /\ fn' = "reindex_lemmas" /\ arg' = NoText /\ ret' = None
    /\ UNCHANGED <<map_vars, hash_seed>>
    /\ UNCHANGED db_vars

NextStore == PostEntry \/ PutEntry \/ ImportCsv \/ PostReindexLemmas

SpecStore == InitStore /\ [][NextStore]_vars

--------------------------------------------------------------------------
(* C23, C24 *)

\* C23: in every reachable state of the entry store, after any sequence of
\* create_entry, update_entry, import_csv and reindex_lemmas requests, each entry
\* whose body text is present has a lemma_index equal to build_lemma_index of its
\* current body text.
C23_IndexFollowsBody ==
    \A i \in 1..Len(catalogue) :
        ~IsEmptyText(catalogue[i].body_greek) =>
            catalogue[i].lemma_index
                = build_lemma_index(catalogue[i].body_greek, hash_seed)

\* the entry a request was about, after the request
Updated == catalogue[arg.id]

\* C24: after an update_entry request that carries body_greek the entry's
\* lemma_index is the index built from the new body and its word_count the number
\* of whitespace-delimited tokens of the new body, whatever the request supplied
\* for lemma_index and word_count; after a request without body_greek the
\* lemma_index is the one the entry had, or the one the request supplied: the
\* recompute step has not touched it.
C24_UpdateRecomputesFromBody ==
    [][fn' = "update_entry" =>
          LET data == arg'.data
              before == catalogue[arg'.id]
              after == catalogue'[arg'.id]
          IN  IF "body_greek" \in DOMAIN data
              THEN /\ after.body_greek = data.body_greek
                   /\ after.lemma_index = build_lemma_index(data.body_greek, hash_seed)
                   /\ after.word_count
                        = count_tokens(IF data.body_greek = NoText THEN <<>>
                                       ELSE data.body_greek, FALSE)
              ELSE /\ after.body_greek = before.body_greek
                   /\ after.lemma_index
                        = field_or(data, "lemma_index", before.lemma_index)]_vars

\* an update that carried a new body of two words together with a lemma_index and
\* a word_count of its own
C24_Witness ==
    /\ fn = "update_entry"
    /\ DOMAIN arg.data = {"body_greek", "lemma_index", "word_count"}
    /\ arg.data.body_greek = <<972, 957, 32, 959, 965>>
    /\ arg.data.lemma_index = JsonText("invalid", <<>>)
    /\ arg.data.word_count = 7
    /\ Updated.word_count = 2
    /\ Updated.lemma_index.kind = "object"

--------------------------------------------------------------------------
(* The database session: commit, DEMO_MODE, and the routes that write *)

\* db.session.commit() of a request whose transaction sees the tables `working`
\* while `committed` is stored: persisted always, DEMO_MODE or not
commit_always(committed, working, demo) == working

\* db.session.commit(): with DEMO_MODE it is demo_commit, flush then rollback,
\* and the stored tables stay; without, the tables of the transaction are stored
commit(committed, working, demo) == IF demo THEN committed ELSE working

\* an Entry row of the database: the columns book, body_greek, lemma_index,
\* word_count and urn_cts; the rows of the model have no legacy author
Row(book, stored, urn_cts) ==
    [book |-> book, body_greek |-> stored.body_greek,
     lemma_index |-> stored.lemma_index, word_count |-> stored.word_count,
     urn_cts |-> urn_cts]

\* generate_urns: urn_cts is written when the entry has a book; the model keeps
\* the parts of the URN
generate_urns(row) ==
    IF IsTruthy(row.book) THEN [row EXCEPT !.urn_cts = <<row.book>>] ELSE row

\* the row create_entry adds
created_row(data, seed) ==
    generate_urns(Row(field_or(data, "book", None), create_entry(data, seed), NoText))

\* the row update_entry leaves: URNs are generated again when the request holds
\* a location field
updated_row(row, data, seed) ==
    LET stored == update_entry(StoredEntry(row.body_greek, row.lemma_index,
                                           row.word_count), data, seed)
        set == Row(field_or(data, "book", row.book), stored, row.urn_cts)
    IN  IF "book" \in DOMAIN data THEN generate_urns(set) ELSE set

\* the row import_csv adds for a CSV row
imported_row(csv_row, seed) ==
    generate_urns(Row(csv_row.book, import_row(csv_row, seed), NoText))

\* the row after reindex_lemmas
reindexed_row(row, seed) ==
    Row(row.book,
        reindex_entry(StoredEntry(row.body_greek, row.lemma_index, row.word_count), seed),
        row.urn_cts)

remove_at(list, k) == SubSeq(list, 1, k - 1) \o SubSeq(list, k + 1, Len(list))

\* reset_database: entries deleted, and with scope 'all' ingredients, source
\* authors and themes too
reset_tables(tables, scope) ==
    IF scope = "all"
    THEN [tables EXCEPT !.entries = <<>>, !.ingredients = {}, !.authors = {},
                        !.themes = {}]
    ELSE [tables EXCEPT !.entries = <<>>]

\* the id a new division row gets: one more than the greatest id of the table
next_id(rows) ==
    IF Len(rows) = 0 THEN 1
    ELSE (CHOOSE m \in {rows[i].id : i \in 1..Len(rows)} :
              \A i \in 1..Len(rows) : rows[i].id <= m) + 1

\* part1 of seed_thematic_structure, added and flushed
seed_part(rows) ==
    Append(rows, Division(next_id(rows), None, <<1, 10>>, <<None, None>>, 1))

\* the divisions below part1; of the rows the seeding adds the model keeps the
\* first division, Books 1-5
seed_rest(rows) ==
    Append(rows, Division(next_id(rows), rows[Len(rows)].id, <<1, 5>>,
                          <<None, None>>, 1))

\* the division table after a seeding of an empty table
SeededDivisions == seed_rest(seed_part(<<>>))

\* the division table before the first seeding
OldDivisions == <<Division(1, None, <<1, 2>>, <<None, None>>, 1)>>

\* the names of the authors, ingredients and themes of the requests
AuthorRows == {[name |-> "Rufus", sect |-> "Pneumatist"]}

IngredientNames == {"honey"}

ThemeNames == {"diet"}

\* the JSON objects of the entry requests
EntryRequests ==
    {("book" :> 2) @@ ("body_greek" :> <<972, 957, 32, 959, 965>>),
     ("lemma_index" :> JsonText("invalid", <<>>))}

ImportRows ==
    {[book |-> None, body_greek |-> <<959, 965, 32>>, word_count |-> 7]}

\* the tables when the process has started; the entry table grows to
\* MaxStored + 1 rows
InitialDatabase ==
    [entries |-> <<created_row(("book" :> 1) @@ ("body_greek" :> <<959, 965>>), 0)>>,
     authors |-> {[name |-> "Galen", sect |-> ""]},
     ingredients |-> {},
     themes |-> {},
     divisions |-> OldDivisions]

SeedSteps == {"seed_cleared", "seed_part", "seed_added"}

InitDatabase ==
    /\ divisions = <<>> /\ entries = <<>> /\ mode = "" /\ pc = "idle"
    /\ division_entries = <<>> /\ response = NoResponse
    /\ fn = "" /\ arg = None /\ ret = None /\ catalogue = <<>> /\ hash_seed = 0
    /\ database = InitialDatabase
    /\ session = <<>>
    /\ DEMO_MODE \in BOOLEAN

\* what a request that runs in one step leaves unchanged
RequestFrame ==
    /\ session' = <<>> /\ arg' = None /\ ret' = None
    /\ UNCHANGED <<divisions, entries, mode, pc, division_entries, response>>
    /\ UNCHANGED <<catalogue, hash_seed, DEMO_MODE>>

\* POST /api/authors
CreateAuthor ==
    /\ pc = "idle"
    /\ \E a \in AuthorRows \ database.authors :
           database' = commit(database, [database EXCEPT !.authors = @ \cup {a}],
                              DEMO_MODE)
    /\ fn' = "create_author"
    /\ RequestFrame

\* DELETE /api/authors/<id>
DeleteAuthor ==
    /\ pc = "idle"
    /\ \E a \in database.authors :
           database' = commit(database, [database EXCEPT !.authors = @ \ {a}],
                              DEMO_MODE)
    /\ fn' = "delete_author"
    /\ RequestFrame

\* POST /api/ingredients
CreateIngredient ==
    /\ pc = "idle"
    /\ \E name \in IngredientNames \ database.ingredients :
           database' = commit(database,
                              [database EXCEPT !.ingredients = @ \cup {name}],
                              DEMO_MODE)
    /\ fn' = "create_ingredient"
    /\ RequestFrame

\* POST /api/themes
CreateTheme ==
    /\ pc = "idle"
    /\ \E name \in ThemeNames \ database.themes :
           database' = commit(database, [database EXCEPT !.themes = @ \cup {name}],
                              DEMO_MODE)
    /\ fn' = "create_theme"
    /\ RequestFrame

\* POST /api/entries
CreateEntryRow ==
    /\ pc = "idle"
    /\ Len(database.entries) <= MaxStored
    /\ \E data \in EntryRequests :
           database' = commit(database,
                              [database EXCEPT !.entries =
                                   Append(@, created_row(data, hash_seed))],
                              DEMO_MODE)
    /\ fn' = "create_entry"
    /\ RequestFrame

\* PUT /api/entries/<id>
UpdateEntryRow ==
    /\ pc = "idle"
    /\ \E id \in 1..Len(database.entries) : \E data \in EntryRequests :
           database' = commit(database,
                              [database EXCEPT !.entries[id] =
                                   updated_row(@, data, hash_seed)],
                              DEMO_MODE)
    /\ fn' = "update_entry"
    /\ RequestFrame

\* DELETE /api/entries/<id>
DeleteEntryRow ==
    /\ pc = "idle"
    /\ \E id \in 1..Len(database.entries) :
           database' = commit(database,
                              [database EXCEPT !.entries = remove_at(@, id)],
                              DEMO_MODE)
    /\ fn' = "delete_entry"
    /\ RequestFrame

\* POST /api/import with a file of one row
ImportRowsCsv ==
    /\ pc = "idle"
    /\ Len(database.entries) <= MaxStored
    /\ \E csv_row \in ImportRows :
           database' = commit(database,
                              [database EXCEPT !.entries =
                                   Append(@, imported_row(csv_row, hash_seed))],
                              DEMO_MODE)
    /\ fn' = "import_csv"
    /\ RequestFrame

\* POST /api/reset with confirm 'RESET'; the rows have no legacy author, so the
\* bootstrap of source authors that follows scope 'all' creates nothing
ResetDatabase ==
    /\ pc = "idle"
    /\ \E scope \in {"entries", "all"} :
           database' = commit(database, reset_tables(database, scope), DEMO_MODE)
    /\ fn' = "reset_database"
    /\ RequestFrame

\* POST /api/reindex-lemmas
ReindexRows ==
    /\ pc = "idle"
    /\ database' = commit(database,
                          [database EXCEPT !.entries =
                               [i \in 1..Len(@) |-> reindexed_row(@[i], hash_seed)]],
                          DEMO_MODE)
    /\ fn' = "reindex_lemmas"
    /\ RequestFrame

\* POST /api/generate-urn/<id>
GenerateUrn ==
    /\ pc = "idle"
    /\ \E id \in 1..Len(database.entries) :
           database' = commit(database,
                              [database EXCEPT !.entries[id] = generate_urns(@)],
                              DEMO_MODE)
    /\ fn' = "generate_urn"
    /\ RequestFrame

\* what a step of the seeding request leaves unchanged
SeedFrame ==
    /\ fn' = "seed_thematic_structure" /\ arg' = None
    /\ UNCHANGED <<divisions, entries, mode, division_entries, response>>
    /\ UNCHANGED <<catalogue, hash_seed, DEMO_MODE>>

\* seed_thematic_structure: ThematicDivision.query.delete() and the first commit
SeedClear ==
    /\ pc = "idle"
    /\ database' = commit(database, [database EXCEPT !.divisions = <<>>], DEMO_MODE)
    /\ session' = database'
    /\ pc' = "seed_cleared"
    /\ ret' = None
    /\ SeedFrame

\* part1 added and flushed
SeedAddPart ==
    /\ pc = "seed_cleared"
    /\ session' = [session EXCEPT !.divisions = seed_part(@)]
    /\ pc' = "seed_part"
    /\ UNCHANGED <<database, ret>>
    /\ SeedFrame

\* the divisions below part1 added
SeedAddRest ==
    /\ pc = "seed_part"
    /\ session' = [session EXCEPT !.divisions = seed_rest(@)]
    /\ pc' = "seed_added"
    /\ UNCHANGED <<database, ret>>
    /\ SeedFrame

\* the last commit and the count of the response
SeedCommit ==
    /\ pc = "seed_added"
    /\ database' = commit(database, session, DEMO_MODE)
    /\ ret' = [status |-> 200, count |-> Len(database'.divisions)]
    /\ session' = <<>>
    /\ pc' = "idle"
    /\ SeedFrame

\* an exception after the first commit ends the request: the session is rolled
\* back and the response is an error
SeedFail ==
    /\ pc \in SeedSteps
    /\ ret' = [status |-> 500, count |-> 0]
    /\ session' = <<>>
    /\ pc' = "idle"
    /\ UNCHANGED database
    /\ SeedFrame

\* GET /api/thematic-structure and GET /api/thematic-map in another request:
\* ThematicDivision.query reads the committed rows
ReadDivisions ==
    /\ \E route \in {"get_thematic_structure", "get_thematic_map"} : fn' = route
    /\ ret' = [status |-> 200, divisions |-> database.divisions]
    /\ arg' = None
    /\ UNCHANGED <<divisions, entries, mode, pc, division_entries, response>>
    /\ UNCHANGED <<catalogue, hash_seed>>
    /\ UNCHANGED db_vars

NextDatabase ==
    \/ CreateAuthor \/ DeleteAuthor \/ CreateIngredient \/ CreateTheme
    \/ CreateEntryRow \/ UpdateEntryRow \/ DeleteEntryRow \/ ImportRowsCsv
    \/ ResetDatabase \/ ReindexRows \/ GenerateUrn
    \/ SeedClear \/ SeedAddPart \/ SeedAddRest \/ SeedCommit \/ SeedFail
    \/ ReadDivisions

SpecDatabase == InitDatabase /\ [][NextDatabase]_vars

--------------------------------------------------------------------------
(* C25, C27 *)

\* C25: with DEMO_MODE no request handled after start-up changes the stored
\* tables: after any sequence of requests the stored entries, authors,
\* ingredients, themes and divisions are those of the start.
C25_DemoModeKeepsStore ==
    DEMO_MODE => database = InitialDatabase

\* with DEMO_MODE a seeding has run to its end, and its transaction held the new
\* divisions
C25_Witness ==
    /\ DEMO_MODE
    /\ fn = "seed_thematic_structure" /\ pc = "idle" /\ ret.status = 200
    /\ ret.count = Len(OldDivisions)

\* C27: seed_thematic_structure replaces the division table atomically: the stored
\* table, which a concurrent reader sees and which a failure part-way leaves
\* behind, is the old set of divisions or the complete new one, never the old
\* set deleted with the new one missing or partly inserted.
C27_SeedingAtomic ==
    /\ database.divisions \in {OldDivisions, SeededDivisions}
    /\ fn \in {"get_thematic_structure", "get_thematic_map"} =>
           ret.divisions \in {OldDivisions, SeededDivisions}


--------------------------------------------------------------------------
(* The filter lists: get_filter_options over the author and entry tables *)

UnknownText == NameText("Unknown")

PneumatistText == <<80, 110, 101, 117, 109, 97, 116, 105, 115, 116>>

\* str.lower() of a text in ASCII
lower(text) == [i \in 1..Len(text) |-> IF text[i] \in 65..90 THEN text[i] + 32 ELSE text[i]]

\* not value: None or ''
IsMissing(value) == value = NoText \/ value = <<>>

\* query(column).distinct().all(): each value of the column once
RECURSIVE distinct(_)
distinct(values) ==
    IF values = <<>> THEN <<>>
    ELSE LET rest == distinct(SubSeq(values, 1, Len(values) - 1))
             last == values[Len(values)]
         IN  IF last \in Elements(rest) THEN rest ELSE Append(rest, last)

\* sorted({v for v in raw if v}), with 'Unknown' put in front when any value
\* of raw is missing
filter_values(raw) ==
    LET values == AscendingList({v \in Elements(raw) : ~IsMissing(v)})
    IN  IF \E i \in 1..Len(raw) : IsMissing(raw[i]) THEN <<UnknownText>> \o values
        ELSE values

\* the response of get_filter_options, for the columns of the model
get_filter_options(db) ==
    LET authors == distinct([i \in 1..Len(db.entries) |-> db.entries[i].author])
        pneumatists == distinct([i \in 1..Len(db.entries) |-> db.entries[i].pneumatist])
        sects == distinct([i \in 1..Len(db.authors) |-> db.authors[i].sect])
        source_authors == SortedBy(db.authors,
                                   [i \in 1..Len(db.authors) |-> db.authors[i].name])
    IN  [authors |-> SelectSeq(authors, LAMBDA a : ~IsMissing(a)),
         pneumatists |-> filter_values(pneumatists),
         sects |-> filter_values(sects),
         source_authors |-> source_authors]

\* db.func.max(Entry.pneumatist) of a group: the greatest value that is not
\* NULL, NULL when there is none
max_pneumatist(rows) ==
    LET values == {rows[i].pneumatist : i \in 1..Len(rows)} \ {NoText}
    IN  IF values = {} THEN NoText
        ELSE CHOOSE v \in values : \A w \in values \ {v} : TupleLess(w, v)

\* the orders in which the rows of a GROUP BY may be returned
Orderings(S) ==
    {order \in [1..Cardinality(S) -> S] :
        \A i, j \in 1..Cardinality(S) : order[i] = order[j] => i = j}

\* the loop of bootstrap_source_authors over the groups, in the order given
RECURSIVE bootstrap_loop(_, _, _)
bootstrap_loop(author_rows, entry_rows, order) ==
    IF order = <<>> THEN author_rows
    ELSE LET group_author == Head(order)
             existing == {lower(strip(author_rows[i].name)) : i \in 1..Len(author_rows)}
             normalized == lower(strip(group_author))
             pneumatist == max_pneumatist(
                               SelectSeq(entry_rows, LAMBDA e : e.author = group_author))
             source_author == [name |-> strip(group_author),
                               sect |-> IF IsMissing(pneumatist) THEN UnknownText
                                        ELSE strip(pneumatist)]
         IN  IF normalized = <<>> \/ normalized \in existing
             THEN bootstrap_loop(author_rows, entry_rows, Tail(order))
             ELSE bootstrap_loop(Append(author_rows, source_author), entry_rows, Tail(order))

\* the authors of the entries that bootstrap_source_authors groups by
grouped_authors(entry_rows) ==
    {entry_rows[i].author : i \in 1..Len(entry_rows)} \ {NoText, <<>>}

MaxRows == 2

FilterAuthorNames == {NameText("Rufus"), NameText("Antyllus")}

FilterSects == {NoText, <<>>, UnknownText, PneumatistText}

FilterEntryAuthors == {NoText, NameText("Antyllus")}

FilterPneumatists == {NoText, <<>>, <<32>>, UnknownText}

InitFilters ==
    /\ NoMapRequest
    /\ database = [authors |-> <<>>, entries |-> <<>>]
    /\ session = <<>> /\ DEMO_MODE = FALSE
    /\ fn = "" /\ arg = None /\ ret = None
    /\ catalogue = <<>> /\ hash_seed = 0

FilterFrame ==
    UNCHANGED <<divisions, entries, mode, pc, division_entries, response,
                catalogue, hash_seed, session, DEMO_MODE>>

\* POST /api/authors; a name already stored fails the UNIQUE constraint
PostAuthor ==
    /\ Len(database.authors) < MaxRows
    /\ \E name \in FilterAuthorNames, sect \in FilterSects :
           /\ arg' = [name |-> name, sect |-> sect]
           /\ database' =
                  IF name \in {database.authors[i].name : i \in 1..Len(database.authors)}
                  THEN database
                  ELSE [database EXCEPT !.authors = Append(@, [name |-> name, sect |-> sect])]
    /\ fn' = "create_author" /\ ret' = None
    /\ FilterFrame

\* POST /api/entries with the legacy columns author and pneumatist
PostLegacyEntry ==
    /\ Len(database.entries) < MaxRows
    /\ \E author \in FilterEntryAuthors, pneumatist \in FilterPneumatists :
           /\ arg' = [author |-> author, pneumatist |-> pneumatist]
           /\ database' = [database EXCEPT
                  !.entries = Append(@, [author |-> author, pneumatist |-> pneumatist])]
    /\ fn' = "create_entry" /\ ret' = None
    /\ FilterFrame

\* bootstrap_source_authors, run by init_db at start
BootstrapSourceAuthors ==
    /\ \E order \in Orderings(grouped_authors(database.entries)) :
           database' = [database EXCEPT
               !.authors = bootstrap_loop(@, database.entries, order)]
    /\ fn' = "bootstrap_source_authors" /\ arg' = None /\ ret' = None
    /\ FilterFrame

\* GET /api/filters
GetFilterOptions ==
    /\ fn' = "get_filter_options" /\ arg' = None
    /\ ret' = get_filter_options(database)
    /\ UNCHANGED database
    /\ FilterFrame

NextFilters ==
    \/ PostAuthor
    \/ PostLegacyEntry
    \/ BootstrapSourceAuthors
    \/ GetFilterOptions

SpecFilters == InitFilters /\ [][NextFilters]_vars

\* no value occurs twice in the list
HasNoRepeat(list) == \A i, j \in 1..Len(list) : list[i] = list[j] => i = j

\* some row of the table lacks the value of the column
SectMissing == \E i \in 1..Len(database.authors) : IsMissing(database.authors[i].sect)

PneumatistMissing ==
    \E i \in 1..Len(database.entries) : IsMissing(database.entries[i].pneumatist)

\* C30: the lists 'sects' and 'pneumatists' of get_filter_options hold each
\* label at most once, and hold 'Unknown' whenever a stored value is missing
C30_FilterLabelsOnce ==
    fn = "get_filter_options" =>
        /\ HasNoRepeat(ret.sects)
        /\ HasNoRepeat(ret.pneumatists)
        /\ SectMissing => UnknownText \in Elements(ret.sects)
        /\ PneumatistMissing => UnknownText \in Elements(ret.pneumatists)

==========================================================================
